---- MODULE Spec2Model ----
(***************************************************************************)
(* A model of the vex-tm-bridge polling engine: ImplBridgeEngine (the      *)
(* registry of fieldset handles and their monitor threads), ImplFieldset   *)
(* (the handle, its window reference, its retained overview and its        *)
(* update event), impl_get_fieldset_overview (the poll strategy) and the   *)
(* external Tournament Manager windows they read.                          *)
(*                                                                         *)
(* Optional values (Python's Optional[T]) are sequences of length 0 or 1:  *)
(* <<>> is None and <<v>> is the value v.  Texts that are parsed are       *)
(* sequences of one-character strings.                                     *)
(***************************************************************************)
EXTENDS Integers, Sequences, FiniteSets, TLC

\* ------------------------------------------------------------------ bounds
\* The threads an engine starts in a run, and the passes a monitor loop makes
\* where the passes are bounded.
MaxThreads == 2
MaxPasses == 1

\* The event streams opened on the API server, and the capacity of a stream's
\* queue (asyncio.Queue(maxsize=100) scaled down).
MaxStreams == 3
MaxQueue == 2

\* The window titles asked for, the threads calling the engine and the
\* observers of the update event.
Titles == { "F1", "F2" }
Callers == { "c1", "c2" }
Observers == { "o1", "o2" }

\* The observers whose callback raises when it is invoked.
RaisingObservers == { "o2" }

\* The title, the caller and the window states of the runs that follow one
\* monitor loop through its cache cycle.
LoopTitles == { "F1" }
LoopCallers == { "c1" }

\* --------------------------------------------------------------- constants
CACHE_CYCLE == 10

\* selected_index() gives 4294967295 (CB_ERR as an unsigned 32-bit number) when
\* nothing is selected; the same 32 bits read as a signed number, which is all
\* the model checker's integers hold.
NoFieldIndex == -1

None == <<>>
Some(v) == <<v>>
Err == "<raise>"
ErrInt == 0 - 1

Competitions == {"V5RC", "VIQRC"}

\* FieldsetAudienceDisplay, in declaration order, with the competitions each
\* display is available for.
DisplayOrder ==
  << "BLANK", "LOGO", "INTRO", "IN_MATCH", "RESULTS", "SCHEDULE", "RANKINGS",
     "SC_RANKINGS", "ALLIANCE_SELECTION", "BRACKET", "AWARD", "INSPECTION" >>

available_for(display, competition) ==
  IF display \in {"ALLIANCE_SELECTION", "BRACKET"}
  THEN competition = "V5RC"
  ELSE competition \in Competitions

\* FieldsetAutonomousBonus, in declaration order.
BonusOrder == << "NONE", "TIE", "RED", "BLUE" >>

\* FieldsetState.by_ui_name: the state whose UI name is the text, or a raise.
by_ui_name(name) ==
  CASE name = "PRESTART" -> "PRESTART"
    [] name = "AUTONOMOUS" -> "AUTONOMOUS"
    [] name = "DRIVER CONTROL" -> "DRIVER CONTROL"
    [] name = "PAUSED" -> "PAUSED"
    [] name = "" -> "DISABLED"
    [] name = "TIMEOUT" -> "TIMEOUT"
    [] OTHER -> Err

\* ------------------------------------------------------------ text parsing
Digits == << "0", "1", "2", "3", "4", "5", "6", "7", "8", "9" >>

DigitValue(ch) == (CHOOSE i \in 1..10 : Digits[i] = ch) - 1

IsDigit(ch) == \E i \in 1..10 : Digits[i] = ch

RECURSIVE IntOfDigits(_)
IntOfDigits(s) ==
  IF s = <<>> THEN 0
  ELSE 10 * IntOfDigits(SubSeq(s, 1, Len(s) - 1)) + DigitValue(s[Len(s)])

\* Python's int(text) on a text of digits; the empty text and a text with any
\* other character raise ValueError.
PyInt(s) ==
  IF s = <<>> \/ \E i \in 1..Len(s) : ~IsDigit(s[i]) THEN ErrInt
  ELSE IntOfDigits(s)

ColonPositions(s) == { i \in 1..Len(s) : s[i] = ":" }

\* A parse of 'mm:ss' that adds the minutes unscaled.
impl_get_match_time_by_string_Unscaled(raw) ==
  IF raw = None \/ raw = Some(<<>>) THEN 0
  ELSE LET s == raw[1]
           cs == ColonPositions(s)
       IN  IF cs # {}
           THEN IF Cardinality(cs) # 1 THEN ErrInt
                ELSE LET p == CHOOSE i \in cs : TRUE
                         minutes == PyInt(SubSeq(s, 1, p - 1))
                         seconds == PyInt(SubSeq(s, p + 1, Len(s)))
                     IN  IF minutes = ErrInt \/ seconds = ErrInt THEN ErrInt
                         ELSE minutes + seconds
           ELSE 0

impl_get_match_time_by_string(raw) ==
  IF raw = None \/ raw = Some(<<>>) THEN 0
  ELSE LET s == raw[1]
           cs == ColonPositions(s)
       IN  IF cs # {}
           THEN IF Cardinality(cs) # 1 THEN ErrInt
                ELSE LET p == CHOOSE i \in cs : TRUE
                         minutes == PyInt(SubSeq(s, 1, p - 1))
                         seconds == PyInt(SubSeq(s, p + 1, Len(s)))
                     IN  IF minutes = ErrInt \/ seconds = ErrInt THEN ErrInt
                         ELSE minutes * 60 + seconds
           ELSE 0

impl_get_prestart_time_by_string(raw) ==
  IF raw = None \/ raw = Some(<<>>) THEN 0
  ELSE IF ColonPositions(raw[1]) # {} THEN 0
  ELSE PyInt(raw[1])

\* A classification that takes the text of a timeout for a match.
impl_get_active_match_type_by_string_NoTimeout(raw) ==
  IF raw = None THEN "NO ACTIVE MATCH" ELSE "MATCH"

impl_get_active_match_type_by_string(raw) ==
  IF raw = None THEN "NO ACTIVE MATCH"
  ELSE IF raw = Some("TO") THEN "TIMEOUT"
  ELSE "MATCH"

\* ------------------------------------------------- reading the TM controls
\* A Match Field Set dialog as the inspector sees it: which display and bonus
\* radio buttons are checked, the static texts (each None when the control has
\* no text), the combo box's selected index and the two check boxes.
FirstIn(order, S) ==
  IF \E i \in 1..Len(order) : order[i] \in S
  THEN order[CHOOSE i \in 1..Len(order) :
               order[i] \in S /\ \A j \in 1..(i - 1) : order[j] \notin S]
  ELSE Err

impl_get_audience_display(tg, competition) ==
  FirstIn(DisplayOrder, { d \in tg.displays : available_for(d, competition) })

impl_get_audience_display_lazy(tg, competition, last_display) ==
  IF last_display \in tg.displays THEN last_display
  ELSE impl_get_audience_display(tg, competition)

impl_get_match_timer_content(tg) == tg.timer

impl_get_match_state(tg) ==
  IF tg.state = None THEN "DISABLED" ELSE by_ui_name(tg.state[1])

impl_get_current_field_id(tg) ==
  IF tg.field # NoFieldIndex THEN Some(tg.field) ELSE None

\* texts[0] or None: the empty text is None.
impl_get_match_on_field(tg) ==
  IF tg.match = None \/ tg.match = Some("") THEN None ELSE tg.match

impl_get_saved_match_results(tg) ==
  IF tg.saved = None \/ tg.saved = Some("") THEN None ELSE tg.saved

impl_get_active_match_type(tg) ==
  impl_get_active_match_type_by_string(impl_get_match_on_field(tg))

impl_get_autonomous_bonus(tg, competition) ==
  IF competition # "V5RC" THEN Err
  ELSE IF impl_get_active_match_type(tg) = "TIMEOUT" THEN Err
  ELSE FirstIn(BonusOrder, tg.bonus)

impl_is_play_sounds(tg) == tg.sounds

impl_is_show_results_automatically(tg) == tg.results

\* ------------------------------------------------------------ poll strategy
FieldsetOverview(ad, mtc, mt, pt, ms, cf, mof, smr, ab, ps, sra, am) ==
  [ audience_display |-> ad, match_timer_content |-> mtc, match_time |-> mt,
    prestart_time |-> pt, match_state |-> ms, current_field_id |-> cf,
    match_on_field |-> mof, saved_match_results |-> smr,
    autonomous_bonus |-> ab, play_sounds |-> ps,
    show_results_automatically |-> sra, active_match |-> am ]

\* A call that raised returns Raised; one that returned v returns Some(v).
Raised == <<>>

OverviewOrRaise(ov) ==
  IF \/ ov.audience_display = Err
     \/ ov.match_time = ErrInt
     \/ ov.prestart_time = ErrInt
     \/ ov.match_state = Err
     \/ ov.autonomous_bonus = Err
  THEN Raised
  ELSE Some(ov)

FullRead(tg, competition) ==
  LET match_timer_content == impl_get_match_timer_content(tg)
      match_on_field == impl_get_match_on_field(tg)
  IN  OverviewOrRaise(FieldsetOverview(
        impl_get_audience_display(tg, competition),
        match_timer_content,
        impl_get_match_time_by_string(match_timer_content),
        impl_get_prestart_time_by_string(match_timer_content),
        impl_get_match_state(tg),
        impl_get_current_field_id(tg),
        match_on_field,
        impl_get_saved_match_results(tg),
        impl_get_autonomous_bonus(tg, competition),
        impl_is_play_sounds(tg),
        impl_is_show_results_automatically(tg),
        impl_get_active_match_type_by_string(match_on_field)))

\* A cached path that copies the three fields whatever the state read.
CachedRead_NeverFresh(tg, competition, last_overview) ==
  LET match_timer_content == impl_get_match_timer_content(tg)
  IN  OverviewOrRaise(FieldsetOverview(
        impl_get_audience_display_lazy(tg, competition, last_overview.audience_display),
        match_timer_content,
        impl_get_match_time_by_string(match_timer_content),
        impl_get_prestart_time_by_string(match_timer_content),
        impl_get_match_state(tg),
        last_overview.current_field_id,
        last_overview.match_on_field,
        last_overview.saved_match_results,
        last_overview.autonomous_bonus,
        last_overview.play_sounds,
        last_overview.show_results_automatically,
        last_overview.active_match))

CachedRead(tg, competition, last_overview) ==
  LET match_timer_content == impl_get_match_timer_content(tg)
      match_state == impl_get_match_state(tg)
      fresh == match_state = "DISABLED"
      match_on_field == IF fresh THEN impl_get_match_on_field(tg)
                        ELSE last_overview.match_on_field
  IN  OverviewOrRaise(FieldsetOverview(
        impl_get_audience_display_lazy(tg, competition, last_overview.audience_display),
        match_timer_content,
        impl_get_match_time_by_string(match_timer_content),
        impl_get_prestart_time_by_string(match_timer_content),
        match_state,
        IF fresh THEN impl_get_current_field_id(tg) ELSE last_overview.current_field_id,
        match_on_field,
        last_overview.saved_match_results,
        last_overview.autonomous_bonus,
        last_overview.play_sounds,
        last_overview.show_results_automatically,
        IF fresh THEN impl_get_active_match_type_by_string(match_on_field)
        ELSE last_overview.active_match))

\* The test of the previous overview inverted.
TakesFullPath_Inverted(last_overview) == last_overview # None

\* The full-refresh path is taken exactly when no previous overview is passed.
TakesFullPath(last_overview) == last_overview = None

\* On the cached path the first statement reads last_overview.audience_display,
\* which raises AttributeError when last_overview is None.
impl_get_fieldset_overview(tg, competition, last_overview) ==
  IF TakesFullPath(last_overview) THEN FullRead(tg, competition)
  ELSE IF last_overview = None THEN Raised
  ELSE CachedRead(tg, competition, last_overview[1])

\* hash(n) of an int below 2^61 - 1 in size: n itself, except that -1 hashes
\* to -2 (CPython keeps -1 for errors).
PyHashInt(n) == IF n = 0 - 1 THEN 0 - 2 ELSE n

PyHashOptionalInt(v) == IF v = None THEN None ELSE Some(PyHashInt(v[1]))

\* FieldsetOverview.__hash__: the hash of the tuple of the twelve fields,
\* kept as the tuple of the elements' hashes. The hashes of the enum members,
\* the texts, None and the booleans are kept as the values themselves: the
\* collisions of the string hash and of the tuple's mixing are not modelled.
OverviewHash(ov) ==
  << ov.audience_display, ov.match_timer_content, PyHashInt(ov.match_time),
     PyHashInt(ov.prestart_time), ov.match_state,
     PyHashOptionalInt(ov.current_field_id), ov.match_on_field,
     ov.saved_match_results, ov.autonomous_bonus, ov.play_sounds,
     ov.show_results_automatically, ov.active_match >>

\* FieldsetOverview.__eq__(self, other): False when other is no
\* FieldsetOverview (None here), else the equality of the two hashes.
FieldsetOverview__eq__(self, other) ==
  IF other = None THEN FALSE
  ELSE OverviewHash(self) = OverviewHash(other[1])

\* self._last_overview != overview, with _last_overview possibly None.
OverviewChanged(last_overview, overview) ==
  IF last_overview = None THEN TRUE
  ELSE OverviewHash(last_overview[1]) # OverviewHash(overview)

\* ------------------------------------------------ commands on the controls
\* What a command function does to the controls it is passed: it returns None
\* after clicking the controls in clicked, or raises and has clicked none.
Returned(clicked) == [ result |-> "None", clicked |-> clicked ]

RaisedError(error) == [ result |-> error, clicked |-> <<>> ]

\* A click that is delivered twice.
click_Twice(control, enabled) ==
  IF control \in enabled THEN Returned(<< control, control >>)
  ELSE RaisedError("ElementNotEnabled")

\* ButtonWrapper.click(): pywinauto raises ElementNotEnabled on a control
\* that is not enabled.
click(control, enabled) ==
  IF control \in enabled THEN Returned(<< control >>)
  ELSE RaisedError("ElementNotEnabled")

\* The try blocks that turn every exception into ValueError.
AsValueError(outcome) ==
  IF outcome.result = "None" THEN outcome ELSE RaisedError("ValueError")

\* A start that clicks Start Match in every state but Pause.
impl_start_match_StartsInAnyState(tg, enabled) ==
  LET current_field_state == impl_get_match_state(tg)
  IN  AsValueError(
        IF current_field_state = Err THEN RaisedError("ValueError")
        ELSE IF current_field_state = "PAUSED"
        THEN click("Resume Match", enabled)
        ELSE click("Start Match", enabled))

impl_start_match(tg, enabled) ==
  LET current_field_state == impl_get_match_state(tg)
  IN  AsValueError(
        IF current_field_state = Err THEN RaisedError("ValueError")
        ELSE IF current_field_state = "PAUSED"
        THEN click("Resume Match", enabled)
        ELSE IF current_field_state = "DISABLED" /\ "Resume Match" \in enabled
        THEN click("Start Match", enabled)
        ELSE RaisedError("ValueError"))

impl_end_early(enabled) == AsValueError(click("End Early", enabled))

impl_abort_match(enabled) == AsValueError(click("Abort Match", enabled))

impl_reset_timer(enabled) == AsValueError(click("Reset Timer", enabled))

impl_set_audience_display(display, competition, enabled) ==
  IF ~available_for(display, competition) THEN RaisedError("ValueError")
  ELSE click(display, enabled)

\* The field ids the combo box lists.
FieldIds == { "0", "1" }

\* ComboBoxWrapper.select raises IndexError on an id the box does not list.
impl_set_current_field_id(field_id, enabled) ==
  IF "Field" \notin enabled THEN RaisedError("ValueError")
  ELSE IF field_id \notin FieldIds THEN RaisedError("IndexError")
  ELSE Returned(<< "Field" >>)

\* A setter of the bonus without the test of the competition.
impl_set_autonomous_bonus_Unchecked(bonus, competition, tg, enabled) ==
  IF impl_get_active_match_type(tg) = "TIMEOUT" THEN RaisedError("ValueError")
  ELSE click(bonus, enabled)

impl_set_autonomous_bonus(bonus, competition, tg, enabled) ==
  IF competition # "V5RC" THEN RaisedError("ValueError")
  ELSE IF impl_get_active_match_type(tg) = "TIMEOUT" THEN RaisedError("ValueError")
  ELSE click(bonus, enabled)

PyBool(text) == text = "True"

impl_set_play_sounds(play_sounds, tg, enabled) ==
  IF impl_is_play_sounds(tg) = PyBool(play_sounds) THEN Returned(<<>>)
  ELSE click("Play Sounds", enabled)

impl_set_show_results_automatically(show_results_automatically, tg, enabled) ==
  IF impl_is_show_results_automatically(tg) = PyBool(show_results_automatically)
  THEN Returned(<<>>)
  ELSE click("Show Results Automatically", enabled)

\* The getter of the bonus as a call that returns a value or raises.
get_autonomous_bonus(tg, competition) ==
  IF impl_get_autonomous_bonus(tg, competition) = Err
  THEN RaisedError("ValueError")
  ELSE [ result |-> "value", clicked |-> <<>> ]

\* The commands of a handle, the getter of the bonus, and the arguments each
\* is called with (texts, for an id or a boolean too).
Commands ==
  { "start_match", "end_early", "abort_match", "reset_timer",
    "set_audience_display", "set_current_field_id", "set_autonomous_bonus",
    "set_play_sounds", "set_show_results_automatically" }

CommandNames == Commands \cup { "get_autonomous_bonus" }

CommandArgs(name) ==
  CASE name = "set_audience_display" -> { "LOGO", "INTRO", "BRACKET" }
    [] name = "set_current_field_id" -> { "0", "1", "9" }
    [] name = "set_autonomous_bonus" -> { "NONE", "RED" }
    [] name \in { "set_play_sounds", "set_show_results_automatically" } ->
         { "True", "False" }
    [] OTHER -> { "-" }

\* The body of the handle's method: the command function on the handle's
\* controls and competition.
Invoke(name, a, tg, comp, enabled) ==
  CASE name = "start_match" -> impl_start_match(tg, enabled)
    [] name = "end_early" -> impl_end_early(enabled)
    [] name = "abort_match" -> impl_abort_match(enabled)
    [] name = "reset_timer" -> impl_reset_timer(enabled)
    [] name = "set_audience_display" -> impl_set_audience_display(a, comp, enabled)
    [] name = "set_current_field_id" -> impl_set_current_field_id(a, enabled)
    [] name = "set_autonomous_bonus" ->
         impl_set_autonomous_bonus(a, comp, tg, enabled)
    [] name = "set_play_sounds" -> impl_set_play_sounds(a, tg, enabled)
    [] name = "set_show_results_automatically" ->
         impl_set_show_results_automatically(a, tg, enabled)
    [] name = "get_autonomous_bonus" -> get_autonomous_bonus(tg, comp)

\* The controls of a dialog that can be clicked, and the sets of them that
\* are enabled when a command is called.
Controls ==
  { "Start Match", "Resume Match", "End Early", "Abort Match", "Reset Timer",
    "Field", "Play Sounds", "Show Results Automatically" }
    \cup { DisplayOrder[i] : i \in 1..Len(DisplayOrder) }
    \cup { BonusOrder[i] : i \in 1..Len(BonusOrder) }

EnabledSets ==
  { Controls \ off :
      off \in SUBSET { "Start Match", "Resume Match", "End Early", "LOGO", "RED" } }

\* ------------------------------------------------------ external windows
\* The states the Match Field Set dialogs are put in.
Chars(a, b, c, d) == << a, b, c, d >>

TargetConfigs ==
  << [ displays |-> {"LOGO"}, timer |-> Some(<<>>), state |-> Some(""),
       field |-> 0, match |-> Some("Q1"), saved |-> None, bonus |-> {"NONE"},
       sounds |-> TRUE, results |-> FALSE ],
     [ displays |-> {"IN_MATCH"}, timer |-> Some(Chars("1", ":", "4", "5")),
       state |-> Some("AUTONOMOUS"), field |-> 1, match |-> Some("Q2"),
       saved |-> Some("Q1"), bonus |-> {"RED"}, sounds |-> FALSE,
       results |-> TRUE ],
     [ displays |-> {"INTRO"}, timer |-> Some(<< "4", "5" >>),
       state |-> Some("TIMEOUT"), field |-> NoFieldIndex, match |-> Some("TO"),
       saved |-> Some("Q2"), bonus |-> {"NONE"}, sounds |-> TRUE,
       results |-> TRUE ] >>

\* ------------------------------------------------------------------ state
VARIABLES
  competition,    \* BridgeEngine.competition
  low_cpu_usage,  \* BridgeEngine.low_cpu_usage
  running,        \* ImplBridgeEngine._running
  lock,           \* ImplBridgeEngine._lock: "free", or the caller holding it
  fieldsets,      \* ImplBridgeEngine._fieldsets: title -> handle (0: no entry)
  threads,        \* ImplBridgeEngine._threads: title -> thread (0: no entry)
  stop_events,    \* ImplBridgeEngine._stop_events: title -> event (0: no entry)
  window,         \* ImplFieldset.window of the title's handle
  last_overview,  \* ImplFieldset._last_overview of the title's handle
  listeners,      \* the listeners of the handle's overview_updated_event
  thr,            \* the monitor threads ever started, in order of creation
  events,         \* the threading.Event objects that are set
  pc,             \* where each caller of the engine is
  arg,            \* the title a caller's get_fieldset was called with
  exists,         \* whether a window with the title is open
  target,         \* the state of the window with the title
  received,       \* the invocations of observers, in the order they were made
  lastOp,         \* the outcome of the engine call that returned last
  api,            \* where each caller of a handle's methods is
  dispatch,       \* the Event.trigger call in progress on the update event
  probe,          \* a direct call of impl_get_fieldset_overview
  command,        \* a direct call of a command function on a dialog's controls
  compare,        \* a comparison of two FieldsetOverview objects
  server          \* APIServer: fieldsets, sse_connections and the event streams

vars ==
  << competition, low_cpu_usage, running, lock, fieldsets, threads,
     stop_events, window, last_overview, listeners, thr, events, pc, arg,
     exists, target, received, lastOp, api, dispatch, probe, command,
     compare, server >>

engineVars == << running, lock, fieldsets, threads, stop_events >>
handleVars == << window, last_overview, listeners >>
envVars == << exists, target >>
configVars == << competition, low_cpu_usage >>
directVars == << command, compare, server >>
callVars == << api, dispatch, probe, directVars >>

\* The threads that call a handle's methods (the web server's request handlers).
ApiCallers == { "a1" }

\* A caller that is in no method of a handle.
ApiIdle ==
  [ pc |-> "idle", method |-> "-", arg |-> "-", title |-> "-",
    overview |-> None, result |-> "-", clicked |-> <<>> ]

\* No Event.trigger call is in progress.
NoDispatch ==
  [ title |-> "-", i |-> 0, start |-> <<>>, called |-> <<>>, changed |-> FALSE ]

\* No direct call of impl_get_fieldset_overview has been set up.
NoProbe == [ set |-> FALSE, tg |-> TargetConfigs[1], last |-> None, out |-> None ]

\* No direct call of a command function has been set up.
NoCommand ==
  [ set |-> FALSE, name |-> "-", arg |-> "-", tg |-> TargetConfigs[1],
    enabled |-> {}, out |-> None ]

\* No comparison of two overviews has been set up.
NoCompare == [ set |-> FALSE, left |-> None, right |-> None, out |-> None ]

\* APIServer.__init__: self.fieldsets = {} and self.sse_connections = {}; no
\* event stream has been opened.  A title without an entry in sse_connections
\* has None, a title with one has the list of its queues, each queue named by
\* the stream that created it.
NoServer ==
  [ fieldsets |-> {}, sse |-> [ t \in Titles |-> None ], streams |-> <<>> ]

Tg(t) == TargetConfigs[target[t]]

is_alive(th) == thr[th].pc # "done"

AliveThreads == { th \in 1..Len(thr) : is_alive(th) }

Init ==
  /\ competition \in Competitions
  /\ low_cpu_usage \in BOOLEAN
  /\ running = FALSE
  /\ lock = "free"
  /\ fieldsets = [t \in Titles |-> 0]
  /\ threads = [t \in Titles |-> 0]
  /\ stop_events = [t \in Titles |-> 0]
  /\ window = [t \in Titles |-> "None"]
  /\ last_overview = [t \in Titles |-> None]
  /\ listeners = [t \in Titles |-> <<>>]
  /\ thr = <<>>
  /\ events = {}
  /\ pc = [c \in Callers |-> "idle"]
  /\ arg = [c \in Callers |-> "-"]
  /\ exists \in [Titles -> BOOLEAN]
  /\ target = [t \in Titles |-> 1]
  /\ received = <<>>
  /\ lastOp = "none"
  /\ api = [c \in ApiCallers |-> ApiIdle]
  /\ dispatch = NoDispatch
  /\ server = NoServer

\* ----------------------------------------------------------------- engine
\* The registry as _start_monitoring_thread sees and changes it.
Registry == [ threads |-> threads, stop_events |-> stop_events, thr |-> thr ]

NewThread(title, id) ==
  [ title |-> title, event |-> id, pc |-> "check", iteration |-> 0,
    path |-> "none", good |-> 0, passes |-> 0 ]

\* The guard without its liveness test: no thread counts as already started.
AlreadyMonitored_Unguarded(st, title) == FALSE

\* title in self._threads and self._threads[title].is_alive()
AlreadyMonitored(st, title) ==
  st.threads[title] # 0 /\ st.thr[st.threads[title]].pc # "done"

\* A start of a thread that records the thread and not its stop event.
start_monitoring_thread_EventNotRecorded(st, title) ==
  IF AlreadyMonitored(st, title) THEN st
  ELSE LET id == Len(st.thr) + 1
       IN  [ threads |-> [st.threads EXCEPT ![title] = id],
             stop_events |-> st.stop_events,
             thr |-> Append(st.thr, NewThread(title, id)) ]

\* A new Event and a new Thread are created together: both get the next id.
start_monitoring_thread(st, title) ==
  IF AlreadyMonitored(st, title) THEN st
  ELSE LET id == Len(st.thr) + 1
       IN  [ threads |-> [st.threads EXCEPT ![title] = id],
             stop_events |-> [st.stop_events EXCEPT ![title] = id],
             thr |-> Append(st.thr, NewThread(title, id)) ]

\* The keys of _fieldsets, a dict, are iterated in insertion order; a handle's
\* number is its place in that order.
NumRegistered == Cardinality({ t \in Titles : fieldsets[t] # 0 })

TitleOfHandle(h) == CHOOSE t \in Titles : fieldsets[t] = h

\* start() that sets the flag and starts no thread.
StartAll_Nothing(st, h) == st

RECURSIVE StartAll(_, _)
StartAll(st, h) ==
  IF h > NumRegistered THEN st
  ELSE StartAll(start_monitoring_thread(st, TitleOfHandle(h)), h + 1)

SetRegistry(st) ==
  /\ Len(st.thr) <= MaxThreads
  /\ threads' = st.threads
  /\ stop_events' = st.stop_events
  /\ thr' = st.thr

\* if self._running: return
StartReturnsEarly == running

\* ImplBridgeEngine.start from `with self._lock:` on: the block is entered with
\* the lock free and left with the lock free again.
StartLocked(c) ==
  /\ lock = "free"
  /\ IF StartReturnsEarly
     THEN /\ lastOp' = "start_noop"
          /\ UNCHANGED << running, threads, stop_events, thr >>
     ELSE /\ running' = TRUE
          /\ SetRegistry(StartAll(Registry, 1))
          /\ lastOp' = "start"
  /\ UNCHANGED << lock, fieldsets, handleVars, events, arg, envVars,
                  configVars, callVars, received >>

\* ImplBridgeEngine.start
Start(c) ==
  /\ pc[c] = "idle"
  /\ StartLocked(c)
  /\ UNCHANGED pc

\* ImplBridgeEngine.stop, up to the joins: taking the lock, the running check,
\* clearing the flag and setting every stop event.
StopSignals == { stop_events[t] : t \in { u \in Titles : stop_events[u] # 0 } }

\* stop() without its early return.
StopReturnsEarly_Never == FALSE

\* if not self._running: return
StopReturnsEarly == ~running

\* stop() from `with self._lock:` up to the joins; the early return leaves the
\* block and the call.
StopLocked(c) ==
  /\ lock = "free"
  /\ IF StopReturnsEarly
     THEN /\ lastOp' = "stop_noop"
          /\ pc' = [pc EXCEPT ![c] = "idle"]
          /\ UNCHANGED << running, events, lock >>
     ELSE /\ running' = FALSE
          /\ events' = events \cup StopSignals
          /\ lock' = c
          /\ pc' = [pc EXCEPT ![c] = "stop_join"]
          /\ UNCHANGED lastOp
  /\ UNCHANGED << fieldsets, threads, stop_events, handleVars, thr, arg,
                  envVars, configVars, callVars, received >>

StopBegin(c) ==
  /\ pc[c] = "idle"
  /\ StopLocked(c)

\* ImplBridgeEngine.stop, from the joins on: every thread of _threads has
\* finished; the two maps are cleared and the lock is released.
\* stop() that signals the threads and does not wait for them.
Joined_NoWait == TRUE

Joined == \A t \in Titles : threads[t] # 0 => ~is_alive(threads[t])

StopJoin(c) ==
  /\ pc[c] = "stop_join"
  /\ Joined
  /\ threads' = [t \in Titles |-> 0]
  /\ stop_events' = [t \in Titles |-> 0]
  /\ lock' = "free"
  /\ pc' = [pc EXCEPT ![c] = "idle"]
  /\ lastOp' = "stop"
  /\ UNCHANGED << running, fieldsets, handleVars, thr, events, arg, envVars,
                  configVars, callVars, received >>

\* ImplBridgeEngine.get_fieldset, the running check made before the lock.
GetFieldsetCheck(c, title) ==
  /\ pc[c] = "idle"
  /\ IF ~running
     THEN /\ lastOp' = "get_not_running"
          /\ UNCHANGED << pc, arg >>
     ELSE /\ pc' = [pc EXCEPT ![c] = "get_lock"]
          /\ arg' = [arg EXCEPT ![c] = title]
          /\ UNCHANGED lastOp
  /\ UNCHANGED << engineVars, handleVars, thr, events, envVars, configVars, callVars,
                  received >>

\* get_fieldset that takes every title for a new one.
Registered_Never(title) == FALSE

\* title in self._fieldsets
Registered(title) == fieldsets[title] # 0

\* A constructor that binds a window whether or not one is found.
ConstructionRaises_Never(title) == FALSE

\* ImplFieldset.__init__: impl_get_match_fieldset finds no window with the
\* title and the constructor raises WindowNotFoundError.
ConstructionRaises(title) == ~exists[title]

\* ImplBridgeEngine.get_fieldset, the part under the lock.
GetFieldsetBody(c) ==
  LET title == arg[c]
  IN  /\ pc[c] = "get_lock"
      /\ lock = "free"
      /\ pc' = [pc EXCEPT ![c] = "idle"]
      /\ arg' = [arg EXCEPT ![c] = "-"]
      /\ IF Registered(title)
         THEN /\ lastOp' = "get_existing"
              /\ UNCHANGED << fieldsets, threads, stop_events, thr, handleVars >>
         ELSE IF ConstructionRaises(title)
         THEN /\ lastOp' = "get_not_found"
              /\ UNCHANGED << fieldsets, threads, stop_events, thr, handleVars >>
         ELSE /\ window' = [window EXCEPT ![title] = "live"]
              /\ last_overview' = [last_overview EXCEPT ![title] = None]
              /\ listeners' = [listeners EXCEPT ![title] = <<>>]
              /\ fieldsets' = [fieldsets EXCEPT ![title] = NumRegistered + 1]
              /\ SetRegistry(start_monitoring_thread(Registry, title))
              /\ lastOp' = "get_new"
      /\ UNCHANGED << running, lock, events, envVars, configVars, callVars, received >>

\* ------------------------------------------------------------ update event
\* The Event attributes Fieldset.__init__ gives a handle, and the attribute
\* get_overview looks up to trigger the update.
EventAttributes == { "overview_updated_event" }

\* get_overview triggering the event the handle does have.
TriggeredAttribute_Declared == "overview_updated_event"

TriggeredAttribute == "overview_event"

\* self.overview_event resolves only if the handle has such an attribute;
\* the lookup raises AttributeError otherwise.
TriggerResolves == TriggeredAttribute \in EventAttributes

\* Event.trigger: for func in listeners: func(caller_self, arg).  The listeners
\* are invoked in registration order; a listener that raises ends the loop and
\* the exception leaves trigger.
TriggerRaises(title) ==
  \E i \in 1..Len(listeners[title]) : listeners[title][i] \in RaisingObservers

Invoked(title) ==
  IF TriggerRaises(title)
  THEN SubSeq(listeners[title], 1,
              CHOOSE i \in 1..Len(listeners[title]) :
                /\ listeners[title][i] \in RaisingObservers
                /\ \A j \in 1..(i - 1) : listeners[title][j] \notin RaisingObservers)
  ELSE listeners[title]

Notifications(funcs, title, overview) ==
  [ i \in 1..Len(funcs) |->
      [ observer |-> funcs[i], title |-> title, overview |-> overview ] ]

Dispatch(log, title, overview) ==
  log \o Notifications(Invoked(title), title, overview)

\* Event.add_listener / Event.remove_listener on overview_updated_event
InList(seq, x) == \E i \in 1..Len(seq) : seq[i] = x

RemoveFirst(seq, x) ==
  LET i == CHOOSE j \in 1..Len(seq) : seq[j] = x /\ \A k \in 1..(j - 1) : seq[k] # x
  IN  SubSeq(seq, 1, i - 1) \o SubSeq(seq, i + 1, Len(seq))

\* An add or a remove that changes the list while a trigger call iterates it.
ChangedUnderDispatch(title) ==
  IF dispatch.title = title /\ listeners'[title] # listeners[title]
  THEN [dispatch EXCEPT !.changed = TRUE]
  ELSE dispatch

\* add_listener that appends whether or not the listener is in the list.
add_listener_Append(title, func) ==
  /\ fieldsets[title] # 0
  /\ listeners' = [listeners EXCEPT ![title] = Append(@, func)]
  /\ dispatch' = ChangedUnderDispatch(title)
  /\ UNCHANGED << engineVars, window, last_overview, thr, events, pc, arg,
                  envVars, configVars, api, probe, directVars,
                  received, lastOp >>

add_listener(title, func) ==
  /\ fieldsets[title] # 0
  /\ listeners' = [listeners EXCEPT ![title] =
                     IF InList(@, func) THEN @ ELSE Append(@, func)]
  /\ dispatch' = ChangedUnderDispatch(title)
  /\ UNCHANGED << engineVars, window, last_overview, thr, events, pc, arg,
                  envVars, configVars, api, probe, directVars,
                  received, lastOp >>

remove_listener(title, func) ==
  /\ fieldsets[title] # 0
  /\ listeners' = [listeners EXCEPT ![title] =
                     IF InList(@, func) THEN RemoveFirst(@, func) ELSE @]
  /\ dispatch' = ChangedUnderDispatch(title)
  /\ UNCHANGED << engineVars, window, last_overview, thr, events, pc, arg,
                  envVars, configVars, api, probe, directVars,
                  received, lastOp >>

\* Event.trigger called on a handle's update event: the for statement makes
\* an iterator over self.__listeners, the list itself.
TriggerBegin(title) ==
  /\ fieldsets[title] # 0
  /\ dispatch.title = "-"
  /\ dispatch' = [ title |-> title, i |-> 0, start |-> listeners[title],
                   called |-> <<>>, changed |-> FALSE ]
  /\ UNCHANGED << engineVars, handleVars, thr, events, pc, arg, envVars,
                  configVars, api, probe, directVars,
                  received, lastOp >>

\* One turn of the for loop: the iterator gives the element at its position
\* in the list as it is now and moves on, or ends the loop when the position
\* is past the end; the listener given is called, and if it raises the
\* exception leaves trigger.
TriggerStep ==
  LET funcs == listeners[dispatch.title]
      func == funcs[dispatch.i + 1]
  IN  /\ dispatch.title # "-"
      /\ dispatch' = IF dispatch.i >= Len(funcs) THEN NoDispatch
                     ELSE IF func \in RaisingObservers THEN NoDispatch
                     ELSE [dispatch EXCEPT !.i = @ + 1,
                                           !.called = Append(@, func)]
      /\ UNCHANGED << engineVars, handleVars, thr, events, pc, arg, envVars,
                      configVars, api, probe, directVars,
                  received, lastOp >>

\* ------------------------------------------------------------ monitor loop
\* should_use_cache = self.low_cpu_usage and iteration % CACHE_CYCLE != 0
should_use_cache(low, iteration) == low /\ iteration % CACHE_CYCLE # 0

\* self._last_overview if cache else None
PassedOverview(cache, last) == IF cache THEN last ELSE None

NextIteration(iteration) == (iteration + 1) % CACHE_CYCLE

\* A thread whose target returned: its locals are gone.
Finished(thread) ==
  [ NewThread(thread.title, thread.event) EXCEPT !.pc = "done" ]

\* A loop that starts its next poll whether or not its stop event is set.
LoopCheck_IgnoresStop(th, bounded) ==
  /\ thr[th].pc = "check"
  /\ bounded => thr[th].passes < MaxPasses
  /\ thr' = [thr EXCEPT ![th].pc = "poll",
                        ![th].passes = IF bounded THEN @ + 1 ELSE @]
  /\ UNCHANGED << engineVars, handleVars, events, pc, arg, envVars,
                  configVars, callVars, received, lastOp >>

\* A loop that takes the engine's lock at the top of every pass.
LoopCheck_TakesLock(th, bounded) ==
  /\ thr[th].pc = "check"
  /\ lock = "free"
  /\ IF thr[th].event \in events
     THEN thr' = [thr EXCEPT ![th] = Finished(@)]
     ELSE /\ bounded => thr[th].passes < MaxPasses
          /\ thr' = [thr EXCEPT ![th].pc = "poll",
                                ![th].passes = IF bounded THEN @ + 1 ELSE @]
  /\ UNCHANGED << engineVars, handleVars, events, pc, arg, envVars,
                  configVars, callVars, received, lastOp >>

\* while not stop_event.is_set(): the top of a pass.  With bounded set, a loop
\* makes at most MaxPasses passes.
LoopCheck(th, bounded) ==
  /\ thr[th].pc = "check"
  /\ IF thr[th].event \in events
     THEN thr' = [thr EXCEPT ![th] = Finished(@)]
     ELSE /\ bounded => thr[th].passes < MaxPasses
          /\ thr' = [thr EXCEPT ![th].pc = "poll",
                                ![th].passes = IF bounded THEN @ + 1 ELSE @]
  /\ UNCHANGED << engineVars, handleVars, events, pc, arg, envVars,
                  configVars, callVars, received, lastOp >>

\* fieldset.get_overview(cache=should_use_cache) and, when it raises, the
\* handler's fieldset.set_window(None).
LoopPoll(th) ==
  LET title == thr[th].title
      cache == should_use_cache(low_cpu_usage, thr[th].iteration)
      connected == window[title] # "None"
      passed == PassedOverview(cache, last_overview[title])
      result == IF window[title] = "live"
                THEN impl_get_fieldset_overview(Tg(title), competition, passed)
                ELSE Raised
      readOk == connected /\ result # Raised
      changed == readOk /\ OverviewChanged(last_overview[title], result[1])
      ok == readOk /\ (changed => TriggerResolves /\ ~TriggerRaises(title))
      path == IF ~connected THEN "none"
              ELSE IF TakesFullPath(passed) THEN "full" ELSE "cached"
      good == IF readOk
              THEN (IF thr[th].good < CACHE_CYCLE THEN thr[th].good + 1 ELSE CACHE_CYCLE)
              ELSE 0
  IN  /\ thr[th].pc = "poll"
      /\ received' = IF changed /\ TriggerResolves
                     THEN Dispatch(received, title, result[1])
                     ELSE received
      /\ IF ok
         THEN /\ last_overview' = [last_overview EXCEPT ![title] = Some(result[1])]
              /\ thr' = [thr EXCEPT ![th].pc = "sleep",
                                    ![th].iteration = NextIteration(@),
                                    ![th].path = path,
                                    ![th].good = good]
              /\ UNCHANGED window
         ELSE /\ window' = [window EXCEPT ![title] = "None"]
              /\ thr' = [thr EXCEPT ![th].pc = "reconnect",
                                    ![th].path = path,
                                    ![th].good = good]
              /\ UNCHANGED last_overview
      /\ UNCHANGED << engineVars, listeners, events, pc, arg, envVars,
                      configVars, callVars, lastOp >>

\* A handler that lets the reconnect's exception leave the thread's target.
AfterFailedReconnect_Propagates(thread) == Finished(thread)

\* The handler without its continue: the pass falls through to the iteration
\* advance and the rate-limiting sleep.
AfterFailedReconnect_FallsThrough(thread) ==
  [thread EXCEPT !.pc = "sleep", !.iteration = (@ + 1) % CACHE_CYCLE]

\* except Exception: time.sleep(1.0); continue -- a failed reconnect leaves the
\* pass for the backoff, the iteration as it was.
AfterFailedReconnect(thread) == [thread EXCEPT !.pc = "backoff"]

\* fieldset.reobtain_window(): on success set_window also forgets the retained
\* overview and the pass goes on to advance the iteration; on failure the
\* handler sleeps and continues.
LoopReconnect(th) ==
  LET title == thr[th].title
  IN  /\ thr[th].pc = "reconnect"
      /\ IF exists[title]
         THEN /\ window' = [window EXCEPT ![title] = "live"]
              /\ last_overview' = [last_overview EXCEPT ![title] = None]
              /\ thr' = [thr EXCEPT ![th].pc = "sleep",
                                    ![th].iteration = NextIteration(@)]
         ELSE /\ thr' = [thr EXCEPT ![th] = AfterFailedReconnect(@)]
              /\ UNCHANGED << window, last_overview >>
      /\ UNCHANGED << engineVars, listeners, events, pc, arg, envVars,
                      configVars, callVars, received, lastOp >>

\* time.sleep(1.0); continue
LoopBackoff(th) ==
  /\ thr[th].pc = "backoff"
  /\ thr' = [thr EXCEPT ![th].pc = "check"]
  /\ UNCHANGED << engineVars, handleVars, events, pc, arg, envVars,
                  configVars, callVars, received, lastOp >>

\* the rate-limiting sleep that ends a pass
LoopSleep(th) ==
  /\ thr[th].pc = "sleep"
  /\ thr' = [thr EXCEPT ![th].pc = "check"]
  /\ UNCHANGED << engineVars, handleVars, events, pc, arg, envVars,
                  configVars, callVars, received, lastOp >>

\* ------------------------------------------------------------ environment
\* The operator closes the dialog: a handle's window reference goes stale.
TargetClose(title) ==
  /\ exists[title]
  /\ exists' = [exists EXCEPT ![title] = FALSE]
  /\ target' = [target EXCEPT ![title] = 1]
  /\ window' = [window EXCEPT ![title] = IF @ = "live" THEN "stale" ELSE @]
  /\ UNCHANGED << engineVars, last_overview, listeners, thr, events, pc, arg,
                  configVars, callVars, received, lastOp >>

TargetOpen(title) ==
  /\ ~exists[title]
  /\ exists' = [exists EXCEPT ![title] = TRUE]
  /\ UNCHANGED << engineVars, handleVars, thr, events, pc, arg, target,
                  configVars, callVars, received, lastOp >>

\* Tournament Manager or its operator changes what the dialog shows.
TargetSet(title, k) ==
  /\ exists[title]
  /\ target[title] # k
  /\ target' = [target EXCEPT ![title] = k]
  /\ thr' = [ th \in 1..Len(thr) |->
                IF thr[th].title = title THEN [thr[th] EXCEPT !.good = 0]
                ELSE thr[th] ]
  /\ UNCHANGED << engineVars, handleVars, events, pc, arg, exists,
                  configVars, callVars, received, lastOp >>

\* ------------------------------------------------------- calls on a handle
\* The handle methods a request handler calls: the overview and one getter.
ApiMethods == { "get_overview", "get_match_state" }

\* ImplFieldset.is_connected: self.window is not None
is_connected(title) == window[title] # "None"

\* Whether the control wrappers the handle holds can still be read.
\* set_window(None) returns before it touches them, so they are those of the
\* last window bound; they are read here only in runs in which an open dialog
\* is never closed, where that window is the open dialog.
ControlsValid(title) == exists[title] /\ window[title] # "stale"

\* A call returns or raises: the caller is outside the handle again.
ApiReturn(c, result) ==
  api' = [api EXCEPT ![c] = [ApiIdle EXCEPT !.result = result]]

\* require_window's wrapper: a method called on a handle that is not
\* connected raises WindowNotFoundError, else the method's body is entered.
ApiCall(c, title, method) ==
  /\ api[c].pc = "idle"
  /\ fieldsets[title] # 0
  /\ IF ~is_connected(title)
     THEN ApiReturn(c, "WindowNotFoundError")
     ELSE api' = [api EXCEPT ![c] = [ pc |-> "checked", method |-> method,
                                      arg |-> "-", title |-> title,
                                      overview |-> None, result |-> "-",
                                      clicked |-> <<>> ]]
  /\ UNCHANGED << engineVars, handleVars, thr, events, pc, arg, envVars,
                  configVars, received, lastOp, dispatch, probe,
                  directVars >>

\* The body reads the controls: get_match_state returns what it read;
\* get_overview(cache=False) makes the full read and goes on to its update.
ApiRead(c) ==
  LET title == api[c].title
      state == impl_get_match_state(Tg(title))
      overview == impl_get_fieldset_overview(Tg(title), competition, None)
  IN  /\ api[c].pc = "checked"
      /\ IF ~ControlsValid(title) THEN ApiReturn(c, "error")
         ELSE IF api[c].method = "get_match_state"
         THEN ApiReturn(c, IF state = Err THEN "error" ELSE "value")
         ELSE IF overview = Raised THEN ApiReturn(c, "error")
         ELSE api' = [api EXCEPT ![c].pc = "read", ![c].overview = overview]
      /\ UNCHANGED << engineVars, handleVars, thr, events, pc, arg, envVars,
                      configVars, received, lastOp, dispatch, probe,
                  directVars >>

\* get_overview from its comparison on: trigger the update if the overview
\* differs from the retained one, retain it, return it.
ApiCommit(c) ==
  LET title == api[c].title
      overview == api[c].overview[1]
      changed == OverviewChanged(last_overview[title], overview)
      ok == changed => TriggerResolves /\ ~TriggerRaises(title)
  IN  /\ api[c].pc = "read"
      /\ received' = IF changed /\ TriggerResolves
                     THEN Dispatch(received, title, overview)
                     ELSE received
      /\ IF ok
         THEN /\ last_overview' = [last_overview EXCEPT ![title] = Some(overview)]
              /\ ApiReturn(c, "value")
         ELSE /\ UNCHANGED last_overview
              /\ ApiReturn(c, "error")
      /\ UNCHANGED << engineVars, window, listeners, thr, events, pc, arg,
                      envVars, configVars, lastOp, dispatch, probe,
                  directVars >>

\* The arguments a caller of a handle passes: one the command accepts and,
\* where there is one, one it refuses.
HandleArgs(name) ==
  CASE name = "set_audience_display" -> { "LOGO", "BRACKET" }
    [] name = "set_current_field_id" -> { "0", "9" }
    [] name = "set_autonomous_bonus" -> { "RED" }
    [] name \in { "set_play_sounds", "set_show_results_automatically" } ->
         { "True" }
    [] OTHER -> { "-" }

\* The sets of enabled controls a command finds on the handle's dialog: all
\* of them, or all but one button.
HandleEnabledSets ==
  { Controls \ off : off \in { {}, {"Start Match"}, {"Resume Match"}, {"End Early"} } }

\* A command returns or raises: the caller is outside the handle again, with
\* the outcome of the command it called.
CommandReturn(c, name, outcome) ==
  api' = [api EXCEPT ![c] = [ApiIdle EXCEPT !.method = name,
                                            !.result = outcome.result,
                                            !.clicked = outcome.clicked]]

\* require_window's wrapper around a command of the handle.
CommandCall(c, title, name, a) ==
  /\ api[c].pc = "idle"
  /\ fieldsets[title] # 0
  /\ IF ~is_connected(title)
     THEN CommandReturn(c, name, RaisedError("WindowNotFoundError"))
     ELSE api' = [api EXCEPT ![c] = [ pc |-> "checked", method |-> name,
                                      arg |-> a, title |-> title,
                                      overview |-> None, result |-> "-",
                                      clicked |-> <<>> ]]
  /\ UNCHANGED << engineVars, handleVars, thr, events, pc, arg, envVars,
                  configVars, received, lastOp, dispatch, probe,
                  directVars >>

\* The body of the command: the command function on the controls the handle
\* holds, whose enabled states are the dialog's at that moment. Nothing of
\* the handle or of the engine is assigned.
CommandBody(c) ==
  LET title == api[c].title
  IN  /\ api[c].pc = "checked"
      /\ api[c].method \in CommandNames
      /\ \E enabled \in HandleEnabledSets :
           CommandReturn(c, api[c].method,
             IF ControlsValid(title)
             THEN Invoke(api[c].method, api[c].arg, Tg(title), competition,
                         enabled)
             ELSE RaisedError("error"))
      /\ UNCHANGED << engineVars, handleVars, thr, events, pc, arg, envVars,
                      configVars, received, lastOp, dispatch, probe,
                      directVars >>

\* ------------------------------------------- the poll strategy called alone
\* The dialogs impl_get_fieldset_overview is called on: every combination of
\* a state text, a timer text, a selected field and a match text.
ReadTargets ==
  { [ displays |-> {"LOGO"}, timer |-> tm, state |-> st, field |-> fd,
      match |-> mt, saved |-> None, bonus |-> {"NONE"}, sounds |-> TRUE,
      results |-> FALSE ] :
      tm \in { Some(<<>>), Some(Chars("1", ":", "4", "5")) },
      st \in { None, Some(""), Some("AUTONOMOUS"), Some("TIMEOUT") },
      fd \in { 0, 1, NoFieldIndex },
      mt \in { None, Some("Q1"), Some("Q2"), Some("TO") } }

\* Dialogs that differ in what a poll may keep from the previous overview:
\* the checked display button, the checked bonus button, the two check boxes
\* and the saved results, under a state that is Disabled and one that is not.
SettingTargets ==
  { [ displays |-> {d}, timer |-> Some(<<>>), state |-> st, field |-> 0,
      match |-> Some("Q1"), saved |-> sv, bonus |-> {b}, sounds |-> ps,
      results |-> sra ] :
      d \in { "LOGO", "INTRO" },
      st \in { Some(""), Some("AUTONOMOUS") },
      sv \in { None, Some("Q1") },
      b \in { "NONE", "RED" },
      ps \in BOOLEAN,
      sra \in BOOLEAN }

\* The texts the match timer control is given: those of digits and colons up
\* to three characters, and some the Tournament Manager shows.
TimerAlphabet == { "0", "5", ":" }

TimerTexts ==
  UNION { [1..n -> TimerAlphabet] : n \in 0..3 }
    \cup { << "0", "1", ":", "3", "0" >>, << "4", "5" >>, << "1", "0" >>,
           << "2", ":", "0", "0" >>, << "0", ":", "0", "0" >>,
           << "1", "0", ":", "0", "5" >> }

\* Dialogs that differ in the timer text only; the control may have no text.
TimerTargets ==
  { [ displays |-> {"LOGO"}, timer |-> tm, state |-> Some("AUTONOMOUS"),
      field |-> 0, match |-> Some("Q1"), saved |-> None, bonus |-> {"NONE"},
      sounds |-> TRUE, results |-> FALSE ] :
      tm \in { None } \cup { Some(t) : t \in TimerTexts } }

ProbeTargets == ReadTargets \cup SettingTargets \cup TimerTargets

\* The previous overviews passed: none, or one a full read has returned.
LastOverviews(comp) ==
  { None } \cup { FullRead(tg, comp) : tg \in ReadTargets \cup SettingTargets }

\* impl_get_fieldset_overview(..., competition, last_overview) called on the
\* controls of a dialog.
ProbeOverview ==
  /\ probe.set
  /\ probe.out = None
  /\ probe' = [probe EXCEPT !.out =
                 Some(impl_get_fieldset_overview(probe.tg, competition, probe.last))]
  /\ UNCHANGED << engineVars, handleVars, thr, events, pc, arg, envVars,
                  configVars, received, lastOp, api, dispatch, directVars >>

\* ------------------------------------------------ two overviews compared
\* The overviews compared: every combination of two values of each field,
\* built by the constructor; the integer fields take negative values too.
Snapshots ==
  { FieldsetOverview(ad, mtc, mt, pt, ms, cf, mof, smr, ab, ps, sra, am) :
      ad \in { "LOGO", "INTRO" },
      mtc \in { None, Some(<<>>) },
      mt \in { 0, 90, 0 - 1 },
      pt \in { 0, 45 },
      ms \in { "DISABLED", "AUTONOMOUS" },
      cf \in { None, Some(0) },
      mof \in { None, Some("Q1") },
      smr \in { None },
      ab \in { "NONE", "RED" },
      ps \in BOOLEAN,
      sra \in { FALSE },
      am \in { "NO ACTIVE MATCH", "MATCH" } }

\* The overviews an overview is compared with: itself, and those that differ
\* from it in one field.
Variants(ov) ==
  { ov }
    \cup { [ov EXCEPT !.audience_display = v] : v \in { "LOGO", "INTRO" } }
    \cup { [ov EXCEPT !.match_timer_content = v] : v \in { None, Some(<<>>) } }
    \cup { [ov EXCEPT !.match_time = v] : v \in { 0, 90, 0 - 1, 0 - 2 } }
    \cup { [ov EXCEPT !.prestart_time = v] : v \in { 0, 45, 0 - 1, 0 - 2 } }
    \cup { [ov EXCEPT !.match_state = v] : v \in { "DISABLED", "AUTONOMOUS" } }
    \cup { [ov EXCEPT !.current_field_id = v] : v \in { None, Some(0), Some(1) } }
    \cup { [ov EXCEPT !.match_on_field = v] : v \in { None, Some("Q1") } }
    \cup { [ov EXCEPT !.saved_match_results = v] : v \in { None, Some("Q1") } }
    \cup { [ov EXCEPT !.autonomous_bonus = v] : v \in { "NONE", "RED" } }
    \cup { [ov EXCEPT !.play_sounds = v] : v \in BOOLEAN }
    \cup { [ov EXCEPT !.show_results_automatically = v] : v \in BOOLEAN }
    \cup { [ov EXCEPT !.active_match = v] : v \in { "NO ACTIVE MATCH", "MATCH" } }

\* left == right, with left a FieldsetOverview and right one or None.
Compare ==
  /\ compare.set
  /\ compare.out = None
  /\ compare' = [compare EXCEPT !.out =
                   Some(FieldsetOverview__eq__(compare.left[1], compare.right))]
  /\ UNCHANGED << engineVars, handleVars, thr, events, pc, arg, envVars,
                  configVars, received, lastOp, api, dispatch, probe, command,
                  server >>

\* ---------------------------------------------- a command called alone
\* The dialogs a command function is called on: every state text (one of them
\* no state's name), a match or a timeout on the field, Play Sounds on or off.
CommandTargets ==
  { [ displays |-> {"LOGO"}, timer |-> Some(<<>>), state |-> st, field |-> 0,
      match |-> mt, saved |-> None, bonus |-> {"NONE"}, sounds |-> ps,
      results |-> FALSE ] :
      st \in { None, Some(""), Some("PRESTART"), Some("AUTONOMOUS"),
               Some("DRIVER CONTROL"), Some("PAUSED"), Some("TIMEOUT"),
               Some("?") },
      mt \in { Some("Q1"), Some("TO") },
      ps \in BOOLEAN }

\* The command function called with the controls of the dialog.
DirectCommand ==
  /\ command.set
  /\ command.out = None
  /\ command' = [command EXCEPT !.out =
                   Some(Invoke(command.name, command.arg, command.tg,
                               competition, command.enabled))]
  /\ UNCHANGED << engineVars, handleVars, thr, events, pc, arg, envVars,
                  configVars, received, lastOp, api, dispatch, probe, compare,
                  server >>

\* --------------------------------------------------------------- API server
\* The serialized overviews a broadcast carries.
Updates == { "u1", "u2" }

\* self.sse_connections[fieldset_title], the empty list for a title without an
\* entry.
Connections(sv, title) == IF sv.sse[title] = None THEN <<>> ELSE sv.sse[title][1]

\* list.remove(queue); a queue that is not in the list raises ValueError, which
\* the caller ignores.
Disconnect(sv, s) ==
  LET title == sv.streams[s].title
  IN  IF sv.sse[title] # None /\ InList(sv.sse[title][1], s)
      THEN [sv EXCEPT !.sse[title] = Some(RemoveFirst(@[1], s))]
      ELSE sv

\* APIServer._get_fieldset on a title the server has no handle for, the
\* engine's get_fieldset having returned one: the handle is kept, the title's
\* connection list is set to a new empty list, the listener is added.
server_get_fieldset(sv, title) ==
  IF title \in sv.fieldsets THEN sv
  ELSE [sv EXCEPT !.fieldsets = @ \cup { title }, !.sse[title] = Some(<<>>)]

\* self.engine.get_fieldset raises (engine not running, no such window) and
\* the exception leaves _get_fieldset.
ServerGetRaises(sv, title, found) == title \notin sv.fieldsets /\ ~found

\* The event loop runs one handler at a time: a generator that has started
\* runs without interruption by another handler up to its first yield.
Streams == 1..Len(server.streams)

EventLoopBusy ==
  \E s \in Streams : server.streams[s].pc \in { "appended", "obtained" }

serverOnly ==
  << engineVars, handleVars, thr, events, pc, arg, envVars, configVars,
     received, lastOp, api, dispatch, probe, command, compare >>

\* APIServer._event_generator, up to the append: a new queue is created and
\* added to the title's connection list, the list created if absent.
StreamStart(title) ==
  /\ ~EventLoopBusy
  /\ Len(server.streams) < MaxStreams
  /\ server' =
       [server EXCEPT
          !.sse[title] = Some(Append(Connections(server, title),
                                     Len(server.streams) + 1)),
          !.streams = Append(@, [ title |-> title, pc |-> "appended",
                                  queue |-> <<>> ])]
  /\ UNCHANGED serverOnly

\* fieldset = self._get_fieldset(fieldset_title), called before the try: an
\* exception ends the generator with its queue left in the list.
StreamObtain(s, found) ==
  /\ server.streams[s].pc = "appended"
  /\ server' =
       IF ServerGetRaises(server, server.streams[s].title, found)
       THEN [server EXCEPT !.streams[s].pc = "failed"]
       ELSE [server_get_fieldset(server, server.streams[s].title)
               EXCEPT !.streams[s].pc = "obtained"]
  /\ UNCHANGED serverOnly

\* The initial fieldset.get_overview() inside the try: when it returns, the
\* generator yields and waits on its queue; when it raises, the finally block
\* removes the queue.
StreamInitial(s, returns) ==
  /\ server.streams[s].pc = "obtained"
  /\ server' =
       IF returns
       THEN [server EXCEPT !.streams[s].pc = "open"]
       ELSE [Disconnect(server, s) EXCEPT !.streams[s].pc = "failed"]
  /\ UNCHANGED serverOnly

\* update = await asyncio.wait_for(queue.get(), timeout=30.0); yield
StreamTake(s) ==
  /\ ~EventLoopBusy
  /\ server.streams[s].pc = "open"
  /\ server.streams[s].queue # <<>>
  /\ server' = [server EXCEPT !.streams[s].queue = Tail(@)]
  /\ UNCHANGED serverOnly

\* The client disconnects: the generator is closed at its await and the
\* finally block removes the queue from the title's list.
StreamClose(s) ==
  /\ ~EventLoopBusy
  /\ server.streams[s].pc = "open"
  /\ server' = [Disconnect(server, s) EXCEPT !.streams[s].pc = "closed"]
  /\ UNCHANGED serverOnly

\* Another endpoint calls self._get_fieldset(fieldset_title).
ServerGet(title, found) ==
  /\ ~EventLoopBusy
  /\ server' = IF ServerGetRaises(server, title, found) THEN server
               ELSE server_get_fieldset(server, title)
  /\ UNCHANGED serverOnly

\* queue.put_nowait(serialized); asyncio.QueueFull is ignored.
put_nowait(queue, update) ==
  IF Len(queue) >= MaxQueue THEN queue ELSE Append(queue, update)

\* APIServer._broadcast_update, called by the listener _get_fieldset added to
\* the handle's overview_updated_event, in the thread that triggers the event.
Broadcast(title, update) ==
  /\ title \in server.fieldsets
  /\ server' =
       [server EXCEPT !.streams =
          [ s \in Streams |->
              IF InList(Connections(server, title), s)
              THEN [ server.streams[s] EXCEPT !.queue = put_nowait(@, update) ]
              ELSE server.streams[s] ]]
  /\ UNCHANGED serverOnly

\* ------------------------------------------------------------ specification
\* The engine under concurrent callers: every title, every caller, monitor
\* loops that make a bounded number of passes.
Next ==
  \/ \E c \in Callers : Start(c)
  \/ \E c \in Callers : StopBegin(c)
  \/ \E c \in Callers : StopJoin(c)
  \/ \E c \in Callers, t \in Titles : GetFieldsetCheck(c, t)
  \/ \E c \in Callers : GetFieldsetBody(c)
  \/ \E th \in 1..Len(thr) : LoopCheck(th, TRUE)
  \/ \E th \in 1..Len(thr) : LoopPoll(th)
  \/ \E th \in 1..Len(thr) : LoopReconnect(th)
  \/ \E th \in 1..Len(thr) : LoopBackoff(th)
  \/ \E th \in 1..Len(thr) : LoopSleep(th)
  \/ \E t \in Titles : TargetClose(t)
  \/ \E t \in Titles : TargetOpen(t)

\* get_bridge_engine(Competition.V5RC), low_cpu_usage at its default
InitEngine ==
  /\ Init
  /\ competition = "V5RC"
  /\ low_cpu_usage
  /\ probe = NoProbe
  /\ command = NoCommand
  /\ compare = NoCompare

Spec == InitEngine /\ [][Next]_vars

\* One monitor loop followed through whole cache cycles: one title, one
\* caller, a window that changes state, observers that come and go.
InitLoop ==
  /\ Init
  /\ \A t \in Titles \ LoopTitles : ~exists[t]
  /\ probe = NoProbe
  /\ command = NoCommand
  /\ compare = NoCompare

NextLoop ==
  \/ \E c \in LoopCallers : Start(c)
  \/ \E c \in LoopCallers : StopBegin(c)
  \/ \E c \in LoopCallers : StopJoin(c)
  \/ \E c \in LoopCallers, t \in LoopTitles : GetFieldsetCheck(c, t)
  \/ \E c \in LoopCallers : GetFieldsetBody(c)
  \/ \E th \in 1..Len(thr) : LoopCheck(th, FALSE)
  \/ \E th \in 1..Len(thr) : LoopPoll(th)
  \/ \E th \in 1..Len(thr) : LoopReconnect(th)
  \/ \E th \in 1..Len(thr) : LoopBackoff(th)
  \/ \E th \in 1..Len(thr) : LoopSleep(th)
  \/ \E t \in LoopTitles : TargetClose(t)
  \/ \E t \in LoopTitles : TargetOpen(t)
  \/ \E t \in LoopTitles, k \in 1..Len(TargetConfigs) : TargetSet(t, k)
  \/ \E t \in LoopTitles, o \in Observers : add_listener(t, o)
  \/ \E t \in LoopTitles, o \in Observers : remove_listener(t, o)

SpecLoop == InitLoop /\ [][NextLoop]_vars

\* One monitor loop under a scheduler that lets every started thread run: the
\* dialog closes and opens, the engine is started and never stopped.
LoopStep(th) ==
  /\ th <= Len(thr)
  /\ \/ LoopCheck(th, FALSE)
     \/ LoopPoll(th)
     \/ LoopReconnect(th)
     \/ LoopBackoff(th)
     \/ LoopSleep(th)

InitLive ==
  /\ InitLoop
  /\ competition = "V5RC"

NextLive ==
  \/ \E c \in LoopCallers : Start(c)
  \/ \E c \in LoopCallers, t \in LoopTitles : GetFieldsetCheck(c, t)
  \/ \E c \in LoopCallers : GetFieldsetBody(c)
  \/ \E th \in 1..MaxThreads : LoopStep(th)
  \/ \E t \in LoopTitles : TargetClose(t)
  \/ \E t \in LoopTitles : TargetOpen(t)

SpecLive ==
  /\ InitLive
  /\ [][NextLive]_vars
  /\ \A th \in 1..MaxThreads : WF_vars(LoopStep(th))

\* The engine's calls with the wait for the lock made a step of its own, so
\* that a call that has begun and has not returned is a state: a caller
\* enters start() or stop() and is then at `with self._lock:`.
StartEnter(c) ==
  /\ pc[c] = "idle"
  /\ pc' = [pc EXCEPT ![c] = "start_lock"]
  /\ UNCHANGED << engineVars, handleVars, thr, events, arg, envVars,
                  configVars, callVars, received, lastOp >>

StartAcquire(c) ==
  /\ pc[c] = "start_lock"
  /\ StartLocked(c)
  /\ pc' = [pc EXCEPT ![c] = "idle"]

\* A thread is created for a title only after the title's previous thread was
\* signalled, so the threads ever created are at most the stop events set
\* plus one.  stop() is called while the events set, the calls of stop() that
\* wait for the lock and the thread a later start() creates stay within
\* MaxThreads.
PendingStops == Cardinality({ c \in Callers : pc[c] = "stop_lock" })

StopEnter(c) ==
  /\ pc[c] = "idle"
  /\ Cardinality(events) + PendingStops + 2 <= MaxThreads
  /\ pc' = [pc EXCEPT ![c] = "stop_lock"]
  /\ UNCHANGED << engineVars, handleVars, thr, events, arg, envVars,
                  configVars, callVars, received, lastOp >>

StopAcquire(c) ==
  /\ pc[c] = "stop_lock"
  /\ StopLocked(c)

\* A caller's step that needs only the scheduler, and its steps that need the
\* lock as well.
CallerJoin(c) == StopJoin(c)

CallerAcquire(c) ==
  \/ StartAcquire(c)
  \/ StopAcquire(c)
  \/ GetFieldsetBody(c)

\* start(), stop() and get_fieldset() called concurrently by every caller for
\* one title whose dialog closes and opens, the monitor loops unbounded
\* (get_bridge_engine(Competition.VIQRC, low_cpu_usage=True)).
InitFair ==
  /\ InitLoop
  /\ competition = "VIQRC"
  /\ low_cpu_usage

NextFair ==
  \/ \E c \in Callers : StartEnter(c)
  \/ \E c \in Callers : StopEnter(c)
  \/ \E c \in Callers, t \in LoopTitles : GetFieldsetCheck(c, t)
  \/ \E c \in Callers : CallerAcquire(c)
  \/ \E c \in Callers : CallerJoin(c)
  \/ \E th \in 1..MaxThreads : LoopStep(th)
  \/ \E t \in LoopTitles : TargetClose(t)
  \/ \E t \in LoopTitles : TargetOpen(t)

\* Every thread that can take a step is scheduled, and a caller waiting for
\* the lock gets it if the lock is free again and again.
SpecFair ==
  /\ InitFair
  /\ [][NextFair]_vars
  /\ \A th \in 1..MaxThreads : WF_vars(LoopStep(th))
  /\ \A c \in Callers : WF_vars(CallerJoin(c))
  /\ \A c \in Callers : SF_vars(CallerAcquire(c))

\* One monitor loop and a request handler that calls the methods of the same
\* handle; the dialog, once open, stays open and changes what it shows.
NextApi ==
  \/ \E c \in LoopCallers : Start(c)
  \/ \E c \in LoopCallers, t \in LoopTitles : GetFieldsetCheck(c, t)
  \/ \E c \in LoopCallers : GetFieldsetBody(c)
  \/ \E th \in 1..Len(thr) : LoopCheck(th, FALSE)
  \/ \E th \in 1..Len(thr) : LoopPoll(th)
  \/ \E th \in 1..Len(thr) : LoopReconnect(th)
  \/ \E th \in 1..Len(thr) : LoopSleep(th)
  \/ \E c \in ApiCallers, t \in LoopTitles, m \in ApiMethods : ApiCall(c, t, m)
  \/ \E c \in ApiCallers : ApiRead(c)
  \/ \E c \in ApiCallers : ApiCommit(c)
  \/ \E t \in LoopTitles : TargetOpen(t)
  \/ \E t \in LoopTitles, k \in 1..Len(TargetConfigs) : TargetSet(t, k)

SpecApi == InitLive /\ [][NextApi]_vars

\* The update event of one handle under the threads that use it: listeners are
\* added and removed while a trigger call is dispatching.
NextEvent ==
  \/ \E c \in LoopCallers : Start(c)
  \/ \E c \in LoopCallers, t \in LoopTitles : GetFieldsetCheck(c, t)
  \/ \E c \in LoopCallers : GetFieldsetBody(c)
  \/ \E t \in LoopTitles, o \in Observers : add_listener(t, o)
  \/ \E t \in LoopTitles, o \in Observers : remove_listener(t, o)
  \/ \E t \in LoopTitles : TriggerBegin(t)
  \/ TriggerStep

SpecEvent == InitLive /\ [][NextEvent]_vars

\* impl_get_fieldset_overview on every dialog and every previous overview.
InitRead ==
  /\ Init
  /\ low_cpu_usage
  /\ \A t \in Titles : ~exists[t]
  /\ probe \in { [ set |-> TRUE, tg |-> tg, last |-> last, out |-> None ] :
                    tg \in ProbeTargets, last \in LastOverviews(competition) }
  /\ command = NoCommand
  /\ compare = NoCompare

NextRead == ProbeOverview

SpecRead == InitRead /\ [][NextRead]_vars

\* One monitor loop and a caller of the commands of the same handle; the
\* dialog, once open, stays open and changes what it shows.
NextHandle ==
  \/ \E c \in LoopCallers : Start(c)
  \/ \E c \in LoopCallers, t \in LoopTitles : GetFieldsetCheck(c, t)
  \/ \E c \in LoopCallers : GetFieldsetBody(c)
  \/ \E th \in 1..Len(thr) : LoopCheck(th, FALSE)
  \/ \E th \in 1..Len(thr) : LoopPoll(th)
  \/ \E th \in 1..Len(thr) : LoopReconnect(th)
  \/ \E th \in 1..Len(thr) : LoopSleep(th)
  \/ \E c \in ApiCallers, t \in LoopTitles, n \in Commands :
       \E a \in HandleArgs(n) : CommandCall(c, t, n, a)
  \/ \E c \in ApiCallers : CommandBody(c)
  \/ \E t \in LoopTitles : TargetOpen(t)
  \/ \E t \in LoopTitles, k \in 1..Len(TargetConfigs) : TargetSet(t, k)
  \/ \E t \in LoopTitles, o \in RaisingObservers : add_listener(t, o)

InitHandle ==
  /\ InitLive
  /\ low_cpu_usage

SpecHandle == InitHandle /\ [][NextHandle]_vars

\* FieldsetOverview.__eq__ on every overview and every variant of it, and on
\* None.
InitCompare ==
  /\ Init
  /\ low_cpu_usage
  /\ \A t \in Titles : ~exists[t]
  /\ probe = NoProbe
  /\ command = NoCommand
  /\ competition = "V5RC"
  /\ compare \in UNION {
       { [ set |-> TRUE, left |-> Some(a), right |-> b, out |-> None ] :
           b \in { None } \cup { Some(v) : v \in Variants(a) } } :
       a \in Snapshots }

NextCompare == Compare

SpecCompare == InitCompare /\ [][NextCompare]_vars

\* Every command function on every dialog, for both competitions.
InitCommand ==
  /\ Init
  /\ low_cpu_usage
  /\ \A t \in Titles : ~exists[t]
  /\ probe = NoProbe
  /\ compare = NoCompare
  /\ command \in UNION {
       { [ set |-> TRUE, name |-> n, arg |-> a, tg |-> tg, enabled |-> en,
           out |-> None ] :
           a \in CommandArgs(n), tg \in CommandTargets, en \in EnabledSets } :
       n \in CommandNames }

NextCommand == DirectCommand

SpecCommand == InitCommand /\ [][NextCommand]_vars

\* The API server: event streams opened, read and closed for every title,
\* other endpoints asking for a title's handle, broadcasts of updates.
InitServer ==
  /\ Init
  /\ competition = "V5RC"
  /\ low_cpu_usage
  /\ \A t \in Titles : ~exists[t]
  /\ probe = NoProbe
  /\ command = NoCommand
  /\ compare = NoCompare

NextServer ==
  \/ \E t \in Titles : StreamStart(t)
  \/ \E s \in Streams, found \in BOOLEAN : StreamObtain(s, found)
  \/ \E s \in Streams, returns \in BOOLEAN : StreamInitial(s, returns)
  \/ \E s \in Streams : StreamTake(s)
  \/ \E s \in Streams : StreamClose(s)
  \/ \E t \in Titles, found \in BOOLEAN : ServerGet(t, found)
  \/ \E t \in Titles, u \in Updates : Broadcast(t, u)

SpecServer == InitServer /\ [][NextServer]_vars

\* ================================================================= claims
LoopsOf(title) == { th \in AliveThreads : thr[th].title = title }

Threads == 1..Len(thr)

NoCallerInStop == \A c \in Callers : pc[c] # "stop_join"

\* A step in which thread th makes its poll (get_overview returns or raises).
PollStep(th) == thr[th].pc = "poll" /\ thr'[th].pc # "poll"

\* The overview the poll of thread th reads, when its reads return one.
PollRead(th) ==
  impl_get_fieldset_overview(
    Tg(thr[th].title), competition,
    PassedOverview(should_use_cache(low_cpu_usage, thr[th].iteration),
                   last_overview[thr[th].title]))

\* A poll step of th whose reads all returned.
PollReadStep(th) ==
  /\ PollStep(th)
  /\ window[thr[th].title] = "live"
  /\ PollRead(th) # Raised

\* C1: at every moment at most one monitor loop is alive for a title, whatever
\* the interleaving of start, stop and get_fieldset; and while the engine runs
\* and no engine call holds the lock, a registered title has exactly one.
C1_OneLoopPerTitle ==
  \A t \in Titles :
    /\ Cardinality(LoopsOf(t)) <= 1
    /\ (running /\ lock = "free" /\ fieldsets[t] # 0) => Cardinality(LoopsOf(t)) = 1

\* Two callers asked for the same title that had no handle; one of them has
\* registered it and started its loop, the other is still at the lock.
C1_Witness ==
  \E c \in Callers :
    /\ pc[c] = "get_lock"
    /\ lastOp = "get_new"
    /\ fieldsets[arg[c]] # 0
    /\ Cardinality(LoopsOf(arg[c])) = 1
    /\ Len(thr) = 1

\* C2 (as the claim states it): a poll whose reads returned a snapshot invokes
\* the registered observers exactly when no snapshot is retained or the
\* snapshot differs from the retained one.
C2_NotifiedExactlyOnChange ==
  [][ \A th \in Threads :
        (PollReadStep(th) /\ listeners[thr[th].title] # <<>>) =>
          ( (received' # received) <=>
              OverviewChanged(last_overview[thr[th].title], PollRead(th)[1]) )
    ]_vars

\* C3 (as the claim states it): a poll that read a changed snapshot invokes
\* every registered observer once, in registration order, with that snapshot,
\* then completes with the snapshot retained.
C3_ObserversInvokedInOrder ==
  [][ \A th \in Threads :
        LET t == thr[th].title
        IN  ( /\ PollReadStep(th)
              /\ ~TriggerRaises(t)
              /\ OverviewChanged(last_overview[t], PollRead(th)[1]) ) =>
              /\ received' = received \o Notifications(listeners[t], t, PollRead(th)[1])
              /\ last_overview'[t] = Some(PollRead(th)[1])
              /\ thr'[th].pc = "sleep"
    ]_vars

\* C4: when a stop() that found the engine running returns, no monitor loop
\* is alive any more, the thread map and the stop-signal map are empty, and
\* the registered handles are those registered when it took the lock.
C4_StopJoinsEveryLoop ==
  [][ /\ \A c \in Callers :
           (pc[c] = "stop_join" /\ pc'[c] = "idle") =>
             /\ \A th \in Threads : thr'[th].pc = "done"
             /\ \A t \in Titles : threads'[t] = 0 /\ stop_events'[t] = 0
      /\ (\E c \in Callers : pc[c] = "stop_join") => fieldsets' = fieldsets
    ]_vars

\* A stop() has returned after joining a loop it found alive.
C4_Witness ==
  /\ lastOp = "stop"
  /\ \E th \in Threads : thr[th].pc = "done"
  /\ \A t \in Titles : threads[t] = 0 /\ stop_events[t] = 0
  /\ \E t \in Titles : fieldsets[t] # 0

\* C5 (as the claim states it): while the engine is not running and no stop()
\* is in progress, no monitor loop is alive.
C5_NoLoopWhileNotRunning ==
  (~running /\ NoCallerInStop) => AliveThreads = {}

\* C6: start() on a running engine and stop() on an engine that is not
\* running return at once and leave the running flag, the handles, the
\* threads and the stop signals as they were.
C6_StartStopIdempotent ==
  [][ \A c \in Callers :
        ((Start(c) /\ running) \/ (StopBegin(c) /\ ~running)) =>
          /\ UNCHANGED << running, lock, fieldsets, threads, stop_events, thr, events >>
          /\ pc'[c] = "idle"
    ]_vars

\* start() was called on a running engine with a live loop, which is still there.
C6_Witness ==
  /\ lastOp = "start_noop"
  /\ running
  /\ AliveThreads # {}

C8_RetainedOverviewCatchesUp ==
  \A th \in AliveThreads :
    thr[th].good >= CACHE_CYCLE =>
      last_overview[thr[th].title] = FullRead(Tg(thr[th].title), competition)

\* C9: a poll that fails leaves the handle disconnected and the pass at its
\* one reconnect attempt; a reconnect attempt is never followed by another in
\* the same pass; if it fails the loop backs off and goes back to the top of
\* the loop, the iteration index as it was and the rate-limiting sleep skipped.
C9_OneReconnectThenBackoff ==
  [][ \A th \in Threads :
        /\ (thr[th].pc = "poll" /\ thr'[th].pc \notin { "poll", "sleep" }) =>
             /\ thr'[th].pc = "reconnect"
             /\ window'[thr[th].title] = "None"
             /\ thr'[th].iteration = thr[th].iteration
        /\ (thr[th].pc = "reconnect" /\ thr'[th].pc # "reconnect") =>
             \/ /\ exists[thr[th].title]
                /\ thr'[th].pc = "sleep"
             \/ /\ ~exists[thr[th].title]
                /\ thr'[th].pc = "backoff"
                /\ thr'[th].iteration = thr[th].iteration
        /\ (thr[th].pc = "backoff" /\ thr'[th].pc # "backoff") =>
             /\ thr'[th].pc = "check"
             /\ thr'[th].iteration = thr[th].iteration
    ]_vars

\* A pass past the first one whose poll and whose reconnect attempt both failed.
C9_Witness ==
  \E th \in Threads :
    /\ thr[th].pc = "backoff"
    /\ thr[th].iteration > 0
    /\ window[thr[th].title] = "None"

\* C10: a poll that fails invokes no observer, and an observer is invoked only
\* in a step in which a poll succeeds; a failed poll is followed by a reconnect
\* attempt, and a reconnect that succeeds leaves the handle connected for the
\* next poll.
C10_FailedPollNotifiesNobody ==
  [][ /\ \A th \in Threads :
           /\ (PollStep(th) /\ thr'[th].pc # "sleep") =>
                /\ received' = received
                /\ thr'[th].pc = "reconnect"
           /\ (thr[th].pc = "reconnect" /\ thr'[th].pc = "sleep") =>
                window'[thr[th].title] = "live"
      /\ received' # received =>
           \E th \in Threads : PollStep(th) /\ thr'[th].pc = "sleep"
    ]_vars

\* With observers registered, one of which raises, a poll failed, the
\* reconnect succeeded and the loop is at its next poll; nobody was invoked.
C10_Witness ==
  \E th \in Threads :
    /\ thr[th].pc = "poll"
    /\ thr[th].iteration > 0
    /\ window[thr[th].title] = "live"
    /\ Len(listeners[thr[th].title]) = 2
    /\ received = <<>>

\* C11 (as the claim states it): if the dialog of a registered title is open
\* from some moment on, the monitor loop connects the handle again and a
\* snapshot of the dialog is produced: a poll returns it and the handle retains
\* it.
C11_ReconnectsAndResumes ==
  \A t \in LoopTitles :
    <>[](exists[t] /\ fieldsets[t] # 0) =>
      <>(window[t] = "live" /\ last_overview[t] # None)

\* The part of C11 the loop does keep: with the dialog open from some moment
\* on, the handle is connected again and again.
ReconnectsForever ==
  \A t \in LoopTitles :
    <>[](exists[t] /\ fieldsets[t] # 0) => []<>(window[t] = "live")

\* C12: a monitor loop's thread finishes only in a step that finds its stop
\* signal set, whatever polls, notifications and reconnect attempts failed
\* before; so every thread that has finished has its stop signal set, which
\* only stop() does.
C12_LoopExitsOnlyOnSignal ==
  [][ \A th \in Threads :
        /\ (is_alive(th) /\ thr'[th].pc = "done") => thr[th].event \in events
        /\ ~is_alive(th) => thr[th].event \in events
    ]_vars

\* A loop whose poll failed, whose reconnect attempt failed and whose next
\* poll found the handle disconnected is at the top of a further pass, alive,
\* its stop signal not set.
C12_Witness ==
  \E th \in Threads :
    /\ running
    /\ thr[th].pc = "check"
    /\ thr[th].path = "none"
    /\ thr[th].event \notin events

\* A request handler is inside get_overview on the title.
InGetOverview(c, title) ==
  /\ api[c].pc # "idle"
  /\ api[c].method = "get_overview"
  /\ api[c].title = title

\* C13 (as the claim states it): no poll of a handle is made while another
\* poll of the same handle is in progress: the monitor loop makes no poll
\* while a request handler is inside get_overview on its handle.
C13_NoConcurrentPolls ==
  [][ \A th \in Threads : \A c \in ApiCallers :
        PollStep(th) => ~InGetOverview(c, thr[th].title)
    ]_vars

\* C16 (as the claim states it): no method of a handle returns a value in a
\* state in which the handle's window reference is absent.
C16_NoValueWhileDisconnected ==
  [][ \A c \in ApiCallers :
        (api[c].pc # "idle" /\ api'[c].result = "value") =>
          is_connected(api[c].title)
    ]_vars

Count(seq, x) == Cardinality({ i \in 1..Len(seq) : seq[i] = x })

\* The step in which a trigger call's for loop finds no further listener.
DispatchCompletes ==
  /\ dispatch.title # "-"
  /\ dispatch.i >= Len(listeners[dispatch.title])
  /\ dispatch'.title = "-"

\* C14 (as the claim states it): when a trigger call completes, every
\* listener that was registered when it started and is registered still has
\* been called exactly once by it, whatever was unregistered meanwhile.
C14_DispatchSkipsNobody ==
  [][ DispatchCompletes =>
        \A o \in Observers :
          ( /\ InList(dispatch.start, o)
            /\ InList(listeners[dispatch.title], o) ) =>
            Count(dispatch.called, o) = 1
    ]_vars

NoDuplicates(seq) == \A o \in Observers : Count(seq, o) <= 1

\* C15: a listener is in the list at most once, whatever was added and
\* removed; adding a registered listener and removing an unregistered one
\* leave the list as it is, and after a remove the listener is not in it; a
\* trigger call calls only listeners that are registered at that moment, and one
\* during which the list did not change has called every listener once, in
\* order, when it completes.
C15_RegistrationIsSetLike ==
  [][ \A t \in LoopTitles :
        /\ NoDuplicates(listeners[t])
        /\ \A o \in Observers :
             /\ (add_listener(t, o) /\ InList(listeners[t], o)) =>
                  listeners'[t] = listeners[t]
             /\ (remove_listener(t, o) /\ ~InList(listeners[t], o)) =>
                  listeners'[t] = listeners[t]
             /\ remove_listener(t, o) => ~InList(listeners'[t], o)
             /\ ( /\ dispatch.title = t
                  /\ Count(dispatch'.called, o) > Count(dispatch.called, o) ) =>
                  InList(listeners[t], o)
        /\ (DispatchCompletes /\ dispatch.title = t /\ ~dispatch.changed) =>
             dispatch.called = listeners[t]
    ]_vars

\* A trigger call that started with two listeners registered, each once in
\* the list, has called the first of them; the list has not changed since.
C15_Witness ==
  /\ dispatch.title \in LoopTitles
  /\ dispatch.start = << "o1", "o2" >>
  /\ dispatch.called = << "o1" >>
  /\ ~dispatch.changed

\* The step in which caller c's get_fieldset, past the running check, runs its
\* part under the lock and returns or raises.
GetStep(c) == pc[c] = "get_lock" /\ pc'[c] = "idle"

\* C17: a get_fieldset for an unregistered title whose window cannot be found
\* raises and leaves the registry, the threads, the stop signals and the lock
\* as they were; when the window can be found the same call registers the
\* title; and a title is registered by no step but such a call.
C17_FailedConstructionRegistersNothing ==
  [][ /\ \A c \in Callers :
           (GetStep(c) /\ fieldsets[arg[c]] = 0) =>
             IF exists[arg[c]]
             THEN /\ lastOp' = "get_new"
                  /\ fieldsets'[arg[c]] # 0
             ELSE /\ lastOp' = "get_not_found"
                  /\ UNCHANGED << fieldsets, threads, stop_events, thr, window >>
                  /\ lock' = "free"
      /\ \A t \in Titles :
           (fieldsets[t] = 0 /\ fieldsets'[t] # 0) =>
             \E c \in Callers : GetStep(c) /\ arg[c] = t
    ]_vars

\* A get_fieldset has just failed to find its window on a running engine:
\* nothing is registered, no thread was started and the lock is free.
C17_Witness ==
  /\ lastOp = "get_not_found"
  /\ running
  /\ lock = "free"
  /\ \A t \in Titles : fieldsets[t] = 0 /\ threads[t] = 0
  /\ thr = <<>>

\* C18: a title's handle, once registered, is the handle of that title for
\* ever: no step replaces or removes it, no two titles share one, the
\* competition does not change, and a get_fieldset for a registered title
\* returns the registered handle.
C18_HandleIdentityIsStable ==
  [][ /\ \A t \in Titles :
           fieldsets[t] # 0 =>
             /\ fieldsets'[t] = fieldsets[t]
             /\ \A u \in Titles \ {t} : fieldsets[u] # fieldsets[t]
      /\ competition' = competition
      /\ \A c \in Callers :
           (GetStep(c) /\ fieldsets[arg[c]] # 0) =>
             /\ lastOp' = "get_existing"
             /\ fieldsets' = fieldsets
    ]_vars

\* get_fieldset returned the registered handle of a title whose first loop
\* was stopped and whose second loop has lost the window and bound it again.
C18_Witness ==
  /\ lastOp = "get_existing"
  /\ \E t \in Titles :
       /\ fieldsets[t] # 0
       /\ window[t] = "live"
       /\ \E th \in Threads : thr[th].title = t /\ ~is_alive(th)
       /\ \E th \in Threads :
            thr[th].title = t /\ thr[th].pc = "sleep" /\ thr[th].path = "full"

\* C19: a start() that finds the engine not running leaves every registered
\* title with exactly one alive loop, the one in the thread map, driven by the
\* stop signal in the signal map, which is not set; and on a running engine
\* get_fieldset for a registered title constructs nothing.
C19_StartRestartsEveryLoop ==
  [][ \A c \in Callers :
        /\ (Start(c) /\ ~running) =>
             \A t \in Titles :
               fieldsets[t] # 0 =>
                 /\ Cardinality({ th \in 1..Len(thr') :
                                    thr'[th].title = t /\ thr'[th].pc # "done" }) = 1
                 /\ threads'[t] # 0
                 /\ thr'[threads'[t]].title = t
                 /\ thr'[threads'[t]].pc # "done"
                 /\ stop_events'[t] = thr'[threads'[t]].event
                 /\ stop_events'[t] \notin events'
        /\ (GetStep(c) /\ running /\ fieldsets[arg[c]] # 0) =>
             /\ lastOp' = "get_existing"
             /\ UNCHANGED << fieldsets, thr >>
    ]_vars

\* start() has returned after a stop(): the registered title's first loop has
\* finished and a second one, with a signal that is not set, is alive.
C19_Witness ==
  /\ lastOp = "start"
  /\ running
  /\ \E t \in Titles :
       /\ fieldsets[t] # 0
       /\ \E th \in Threads : thr[th].title = t /\ ~is_alive(th)
       /\ threads[t] # 0
       /\ is_alive(threads[t])
       /\ stop_events[t] \notin events

\* C20: an overview the cached path returns has the state and the timer text
\* of the dialog; its field id, match on field and active match are those of
\* the previous overview when that state is not Disabled and those of the
\* dialog when it is.
C20_CachedPathRule ==
  (probe.out # None /\ probe.last # None /\ probe.out[1] # Raised) =>
    LET ov == probe.out[1][1]
        last == probe.last[1]
        tg == probe.tg
    IN  /\ ov.match_state = impl_get_match_state(tg)
        /\ ov.match_timer_content = impl_get_match_timer_content(tg)
        /\ IF ov.match_state # "DISABLED"
           THEN /\ ov.current_field_id = last.current_field_id
                /\ ov.match_on_field = last.match_on_field
                /\ ov.active_match = last.active_match
           ELSE /\ ov.current_field_id = impl_get_current_field_id(tg)
                /\ ov.match_on_field = impl_get_match_on_field(tg)
                /\ ov.active_match = impl_get_active_match_type(tg)

\* The cached path has returned, for a dialog whose state is Disabled, the
\* dialog's field, match and match type, all three different from those of
\* the previous overview.
C20_Witness ==
  /\ probe.out # None
  /\ probe.last # None
  /\ probe.out[1] # Raised
  /\ probe.out[1][1].match_state = "DISABLED"
  /\ probe.out[1][1].current_field_id # probe.last[1].current_field_id
  /\ probe.out[1][1].match_on_field # probe.last[1].match_on_field
  /\ probe.out[1][1].active_match # probe.last[1].active_match

\* C21: an overview the cached path returns carries the dialog's current
\* audience display, autonomous bonus, play-sounds setting and
\* show-results-automatically setting.
C21_CachedSettingsAreCurrent ==
  (probe.out # None /\ probe.last # None /\ probe.out[1] # Raised) =>
    LET ov == probe.out[1][1]
        tg == probe.tg
    IN  /\ ov.audience_display \in tg.displays
        /\ ov.autonomous_bonus \in tg.bonus
        /\ ov.play_sounds = tg.sounds
        /\ ov.show_results_automatically = tg.results

\* The part of C21 the cached path does keep: the audience display of the
\* overview is the display whose button is checked in the dialog.
CachedDisplayIsCurrent ==
  (probe.out # None /\ probe.last # None /\ probe.out[1] # Raised) =>
    probe.out[1][1].audience_display \in probe.tg.displays

\* The number a text of decimal digits denotes, read digit by digit from the
\* left.
RECURSIVE Decimal(_, _)
Decimal(s, acc) ==
  IF s = <<>> THEN acc
  ELSE Decimal(Tail(s), 10 * acc + DigitValue(Head(s)))

\* The timer text 'mm:ss' or 'ss' cut at its colon.
BeforeColon(s) == SubSeq(s, 1, (CHOOSE i \in 1..Len(s) : s[i] = ":") - 1)
AfterColon(s) == SubSeq(s, (CHOOSE i \in 1..Len(s) : s[i] = ":") + 1, Len(s))
HasColon(s) == \E i \in 1..Len(s) : s[i] = ":"

\* C22: in every overview returned, match_time and prestart_time are derived
\* from the overview's own timer text: 'mm:ss' gives 60 * mm + ss and 0, a
\* text without a colon gives 0 and its integer value, an empty or absent
\* text gives 0 and 0; at most one of the two is non-zero, "01:30" gives 90
\* and 0, and "45" gives 0 and 45.
C22_TimesFromTimerText ==
  (probe.out # None /\ probe.out[1] # Raised) =>
    LET ov == probe.out[1][1]
        text == ov.match_timer_content
    IN  /\ text = probe.tg.timer
        /\ IF text = None \/ text = Some(<<>>)
           THEN ov.match_time = 0 /\ ov.prestart_time = 0
           ELSE IF HasColon(text[1])
           THEN /\ ov.match_time = 60 * Decimal(BeforeColon(text[1]), 0)
                                     + Decimal(AfterColon(text[1]), 0)
                /\ ov.prestart_time = 0
           ELSE /\ ov.match_time = 0
                /\ ov.prestart_time = Decimal(text[1], 0)
        /\ ov.match_time = 0 \/ ov.prestart_time = 0
        /\ text = Some(<< "0", "1", ":", "3", "0" >>) =>
             ov.match_time = 90 /\ ov.prestart_time = 0
        /\ text = Some(<< "4", "5" >>) =>
             ov.match_time = 0 /\ ov.prestart_time = 45

\* An overview was returned for the timer text "01:30", with a match time of
\* 90 seconds and no prestart time.
C22_Witness ==
  /\ probe.out # None
  /\ probe.out[1] # Raised
  /\ probe.out[1][1].match_timer_content = Some(<< "0", "1", ":", "3", "0" >>)
  /\ probe.out[1][1].match_time = 90
  /\ probe.out[1][1].prestart_time = 0

\* An overview was returned for the timer text "45", with a prestart time of
\* 45 seconds and no match time, by the cached path.
PrestartWitness ==
  /\ probe.out # None
  /\ probe.last # None
  /\ probe.out[1] # Raised
  /\ probe.out[1][1].match_timer_content = Some(<< "4", "5" >>)
  /\ probe.out[1][1].prestart_time = 45

\* The twelve fields of two overviews are pairwise equal.
FieldsEqual(a, b) ==
  /\ a.audience_display = b.audience_display
  /\ a.match_timer_content = b.match_timer_content
  /\ a.match_time = b.match_time
  /\ a.prestart_time = b.prestart_time
  /\ a.match_state = b.match_state
  /\ a.current_field_id = b.current_field_id
  /\ a.match_on_field = b.match_on_field
  /\ a.saved_match_results = b.saved_match_results
  /\ a.autonomous_bonus = b.autonomous_bonus
  /\ a.play_sounds = b.play_sounds
  /\ a.show_results_automatically = b.show_results_automatically
  /\ a.active_match = b.active_match

\* C23: an overview compares equal to another exactly when the twelve fields
\* of the two are pairwise equal, and never compares equal to None.
C23_EqualIffFieldsEqual ==
  compare.out # None =>
    (compare.out[1] <=>
       (compare.right # None /\ FieldsEqual(compare.left[1], compare.right[1])))

\* What the comparison does guarantee: overviews with equal fields compare
\* equal, no overview compares equal to None, and two overviews whose integer
\* fields are not negative compare equal only when their fields are equal.
NonNegative(ov) ==
  /\ ov.match_time >= 0
  /\ ov.prestart_time >= 0
  /\ ov.current_field_id # None => ov.current_field_id[1] >= 0

EqualityOfPolledValues ==
  compare.out # None =>
    /\ compare.right = None => ~compare.out[1]
    /\ (compare.right # None /\ FieldsEqual(compare.left[1], compare.right[1]))
         => compare.out[1]
    /\ (compare.right # None /\ compare.out[1] /\ NonNegative(compare.left[1])
          /\ NonNegative(compare.right[1]))
         => FieldsEqual(compare.left[1], compare.right[1])

\* The state texts of a dialog in the states other than Disabled and Pause.
RunningStateTexts ==
  { Some("PRESTART"), Some("AUTONOMOUS"), Some("DRIVER CONTROL"),
    Some("TIMEOUT") }

\* C24: start_match on a dialog whose state is Prestart, Autonomous,
\* DriverControl or Timeout raises an error and clicks no button.
C24_StartRefusedWhileRunning ==
  (command.out # None /\ command.name = "start_match"
     /\ command.tg.state \in RunningStateTexts) =>
    /\ command.out[1].result = "ValueError"
    /\ command.out[1].clicked = <<>>

\* start_match has raised on a dialog in the Autonomous state whose Start
\* Match and Resume Match buttons were both enabled.
C24_Witness ==
  /\ command.out # None
  /\ command.name = "start_match"
  /\ command.tg.state = Some("AUTONOMOUS")
  /\ { "Start Match", "Resume Match" } \subseteq command.enabled
  /\ command.out[1].result = "ValueError"

\* C25: start_match on a dialog whose state is Disabled returns after
\* clicking Start Match, and on one whose state is Pause after clicking
\* Resume Match: one button clicked, no error.
C25_StartClicksOneButton ==
  (command.out # None /\ command.name = "start_match") =>
    /\ command.tg.state \in { None, Some("") } =>
         command.out[1] = Returned(<< "Start Match" >>)
    /\ command.tg.state = Some("PAUSED") =>
         command.out[1] = Returned(<< "Resume Match" >>)

\* What start_match does guarantee: with Start Match and Resume Match both
\* enabled it clicks Start Match in the Disabled state and Resume Match in
\* the Pause state, and it never clicks more than one button.
StartMatchWhenBothEnabled ==
  (command.out # None /\ command.name = "start_match") =>
    /\ Len(command.out[1].clicked) <= 1
    /\ { "Start Match", "Resume Match" } \subseteq command.enabled =>
         /\ command.tg.state \in { None, Some("") } =>
              command.out[1] = Returned(<< "Start Match" >>)
         /\ command.tg.state = Some("PAUSED") =>
              command.out[1] = Returned(<< "Resume Match" >>)

\* start_match has raised without a click on a dialog in the Disabled state
\* whose Start Match button was enabled.
StartRefusedWhileDisabled ==
  /\ command.out # None
  /\ command.name = "start_match"
  /\ command.tg.state = Some("")
  /\ "Start Match" \in command.enabled
  /\ command.out[1] = RaisedError("ValueError")

\* C26: setting or reading the autonomous bonus for a competition other than
\* V5RC, and setting an audience display the competition does not have,
\* raise an error and click no control.
C26_InvalidForCompetitionRaises ==
  command.out # None =>
    /\ (command.name \in { "set_autonomous_bonus", "get_autonomous_bonus" }
          /\ competition # "V5RC") =>
         command.out[1] = RaisedError("ValueError")
    /\ (command.name = "set_audience_display"
          /\ ~((command.arg \in { "ALLIANCE_SELECTION", "BRACKET" }) =>
                 competition = "V5RC")) =>
         command.out[1] = RaisedError("ValueError")

\* set_autonomous_bonus has raised for VIQRC on a dialog with a match on the
\* field and the bonus button enabled.
C26_Witness ==
  /\ command.out # None
  /\ command.name = "set_autonomous_bonus"
  /\ competition = "VIQRC"
  /\ command.tg.match = Some("Q1")
  /\ command.arg \in command.enabled
  /\ command.out[1].result = "ValueError"
  /\ command.out[1].clicked = <<>>

\* set_audience_display has raised for VIQRC on the bracket display, whose
\* button was enabled.
UnavailableDisplayWitness ==
  /\ command.out # None
  /\ command.name = "set_audience_display"
  /\ command.arg = "BRACKET"
  /\ competition = "VIQRC"
  /\ "BRACKET" \in command.enabled
  /\ command.out[1] = RaisedError("ValueError")

\* A step of a caller inside a command of a handle: the call of the command,
\* or its body.
CommandStep(c) ==
  /\ api'[c] # api[c]
  /\ api'[c].method \in Commands

\* C27: a command called on a handle is attempted once, whether it returns
\* or raises: its call is followed by one body that clicks at most one
\* control and returns the caller with None or with the error raised; no step
\* of the command changes the retained overview, the window reference, the
\* observer list or any loop's iteration counter.
C27_CommandLeavesHandleAlone ==
  [][\A c \in ApiCallers :
       CommandStep(c) =>
         /\ last_overview' = last_overview
         /\ window' = window
         /\ listeners' = listeners
         /\ thr' = thr
         /\ api[c].pc = "checked" =>
              /\ api'[c].pc = "idle"
              /\ api'[c].result # "-"
              /\ Len(api'[c].clicked) <= 1
              /\ api'[c].result # "None" => api'[c].clicked = <<>>]_vars

\* A command has raised ValueError on a connected handle that has an
\* observer and whose loop has advanced its iteration counter.
C27_Witness ==
  \E c \in ApiCallers, t \in LoopTitles :
    /\ api[c].pc = "idle"
    /\ api[c].method \in Commands
    /\ api[c].result = "ValueError"
    /\ is_connected(t)
    /\ listeners[t] # <<>>
    /\ \E th \in LoopsOf(t) : thr[th].iteration > 0

\* A command has returned after one click while the loop of its handle was
\* between the check of the stop event and the end of its poll.
CommandDuringPollWitness ==
  \E c \in ApiCallers, t \in LoopTitles :
    /\ api[c].pc = "idle"
    /\ api[c].result = "None"
    /\ Len(api[c].clicked) = 1
    /\ \E th \in LoopsOf(t) : thr[th].pc = "poll"

\* C28: a full read of a dialog whose controls can all be read returns an
\* overview, for either competition, in every state and with a match, a
\* timeout or nothing on the field.
C28_FullReadReturns ==
  (probe.out # None /\ probe.last = None
     /\ probe.tg \in ReadTargets \cup SettingTargets) =>
    probe.out[1] # Raised

\* What the full read does return: an overview for V5RC whenever the match
\* text of the dialog is not that of a timeout, and none for VIQRC.
FullReadByCompetition ==
  (probe.out # None /\ probe.last = None
     /\ probe.tg \in ReadTargets \cup SettingTargets) =>
    (probe.out[1] # Raised <=>
       (competition = "V5RC" /\ probe.tg.match # Some("TO")))

\* C29: the iteration counter of a loop is always in 0..CACHE_CYCLE - 1; it
\* advances by one modulo CACHE_CYCLE in a pass whose poll succeeded and is
\* left as it is by a pass whose poll failed, whether the reconnect attempt
\* succeeds or not.
C29_IterationAdvancesOnSuccessOnly ==
  [][\A th \in Threads :
       /\ thr[th].iteration \in 0..(CACHE_CYCLE - 1)
       /\ thr'[th].pc # "done" =>
            IF PollStep(th) /\ thr'[th].pc = "sleep"
            THEN thr'[th].iteration = (thr[th].iteration + 1) % CACHE_CYCLE
            ELSE thr'[th].iteration = thr[th].iteration]_vars

\* What the loop does: the counter stays in 0..CACHE_CYCLE - 1 and advances
\* by one modulo CACHE_CYCLE when the poll succeeds and when the reconnect
\* attempt after a failed poll succeeds; only a failed reconnect attempt
\* leaves it as it was.
IterationAdvancesUnlessBackoff ==
  [][\A th \in Threads :
       /\ thr[th].iteration \in 0..(CACHE_CYCLE - 1)
       /\ thr'[th].pc # "done" =>
            IF thr[th].pc \in { "poll", "reconnect" } /\ thr'[th].pc = "sleep"
            THEN thr'[th].iteration = (thr[th].iteration + 1) % CACHE_CYCLE
            ELSE thr'[th].iteration = thr[th].iteration]_vars

\* C30: a loop tests its stop event only at the top of a pass: a poll is
\* started only from there and only with the event not set; a loop that is
\* inside a pass when the event is set finishes its poll, its reconnect
\* attempt, its backoff or its sleep and returns to the top, where it exits
\* without another poll; and a loop exits nowhere else.
C30_StopIsCooperative ==
  [][\A th \in Threads :
       /\ (thr[th].pc # "poll" /\ thr'[th].pc = "poll") =>
            thr[th].pc = "check" /\ thr[th].event \notin events
       /\ (thr[th].pc = "check" /\ thr[th].event \in events
             /\ thr'[th].pc # "check") =>
            thr'[th].pc = "done"
       /\ (thr[th].pc \in { "poll", "reconnect", "backoff", "sleep" }
             /\ thr[th].event \in events) =>
            thr'[th].pc \in { "poll", "reconnect", "backoff", "sleep", "check" }
       /\ (thr[th].pc # "done" /\ thr'[th].pc = "done") =>
            thr[th].pc = "check" /\ thr[th].event \in events
       /\ thr[th].pc = "done" => thr'[th].pc = "done"]_vars

\* stop() has set the event of a loop that was already past the check: the
\* loop is about to make the one poll it still makes.
C30_Witness ==
  \E th \in Threads :
    /\ thr[th].pc = "poll"
    /\ thr[th].event \in events
    /\ ~running

\* A loop whose event was set while it was in its backoff is still there.
StopDuringBackoffWitness ==
  \E th \in Threads :
    /\ thr[th].pc = "backoff"
    /\ thr[th].event \in events

\* C35: in every overview returned, by the full path and by the cached path,
\* active_match is the classification of the overview's own match_on_field:
\* None gives NoActiveMatch, "TO" gives Timeout, any other text gives Match.
C35_MatchTypeFollowsMatchOnField ==
  (probe.out # None /\ probe.out[1] # Raised) =>
    LET ov == probe.out[1][1]
    IN  /\ ov.match_on_field = None <=> ov.active_match = "NO ACTIVE MATCH"
        /\ ov.match_on_field = Some("TO") <=> ov.active_match = "TIMEOUT"
        /\ ov.match_on_field \notin { None, Some("TO") }
             <=> ov.active_match = "MATCH"

\* The cached path has returned, for a dialog with a timeout on the field, an
\* overview whose match type is Timeout, after a previous overview whose
\* match type was another.
C35_Witness ==
  /\ probe.out # None
  /\ probe.last # None
  /\ probe.out[1] # Raised
  /\ probe.out[1][1].match_on_field = Some("TO")
  /\ probe.out[1][1].active_match = "TIMEOUT"
  /\ probe.last[1].active_match # "TIMEOUT"

\* The cached path has returned, for a dialog whose state is not Disabled,
\* the match and the match type of the previous overview although the dialog
\* shows another match.
CopiedMatchWitness ==
  /\ probe.out # None
  /\ probe.last # None
  /\ probe.out[1] # Raised
  /\ probe.out[1][1].match_state # "DISABLED"
  /\ probe.out[1][1].match_on_field # impl_get_match_on_field(probe.tg)
  /\ probe.out[1][1].active_match # impl_get_active_match_type(probe.tg)

C31_DisconnectOnlyWhenUnreachable ==
  [][\A th \in Threads :
       (PollStep(th) /\ window[thr[th].title] = "live") =>
         /\ window'[thr[th].title] = "live"
         /\ thr'[th].pc # "reconnect"]_vars

\* What the loop does: every poll that raises, for whatever reason, clears the
\* reference and goes to the reconnect attempt; only a poll that returns
\* leaves the reference as it was.
AnyFailedPollDisconnects ==
  [][\A th \in Threads :
       PollStep(th) =>
         IF thr'[th].pc = "sleep"
         THEN window'[thr[th].title] = window[thr[th].title]
         ELSE window'[thr[th].title] = "None" /\ thr'[th].pc = "reconnect"]_vars

\* C33 (as the claim states it): a successful reconnect leaves the handle
\* with no retained overview, so the next poll whose reads return takes the
\* full path whatever the iteration index, and it calls the registered
\* observers, whatever was published before the disconnect.
C33_ReconnectForcesFullReadAndNotify ==
  [][\A th \in Threads :
       LET t == thr[th].title
       IN  /\ (thr[th].pc = "reconnect" /\ thr'[th].pc = "sleep") =>
                last_overview'[t] = None
           /\ (PollReadStep(th) /\ last_overview[t] = None) =>
                /\ thr'[th].path = "full"
                /\ listeners[t] # <<>> => received' # received]_vars

\* What the loop does: the reconnect forgets the retained overview and the
\* next poll whose reads return takes the full path at every iteration index.
ReconnectForcesFullRead ==
  [][\A th \in Threads :
       LET t == thr[th].title
       IN  /\ (thr[th].pc = "reconnect" /\ thr'[th].pc = "sleep") =>
                last_overview'[t] = None
           /\ (PollReadStep(th) /\ last_overview[t] = None) =>
                thr'[th].path = "full"]_vars

\* A loop in low-CPU mode, reconnected at an iteration index that selects the
\* cached path, is about to poll with nothing retained.
FullReadAfterReconnectWitness ==
  \E th \in Threads :
    /\ thr[th].pc = "poll"
    /\ low_cpu_usage
    /\ thr[th].iteration % CACHE_CYCLE # 0
    /\ window[thr[th].title] = "live"
    /\ last_overview[thr[th].title] = None
    /\ listeners[thr[th].title] # <<>>

\* C32: start(), stop() and get_fieldset() called concurrently never block
\* one another for ever: every read and every reconnect attempt returning,
\* each call that has begun returns; in particular a stop() that holds the
\* lock while it joins the monitor loops completes.
C32_EveryCallReturns ==
  \A c \in Callers : (pc[c] # "idle") ~> (pc[c] = "idle")

\* stop() holds the lock and waits for a loop that is in the middle of a poll,
\* while the other caller waits for the lock.
C32_Witness ==
  \E c \in Callers, d \in Callers, th \in Threads :
    /\ pc[c] = "stop_join"
    /\ lock = c
    /\ pc[d] \in { "start_lock", "get_lock" }
    /\ threads[thr[th].title] = th
    /\ thr[th].pc \in { "poll", "reconnect", "backoff" }

\* An event stream whose generator has reached its first yield and has not
\* been closed.
StreamOpen(s) == server.streams[s].pc = "open"

Connected(s) == InList(Connections(server, server.streams[s].title), s)

\* C36 (as the claim states it): every event stream has its queue in its
\* title's connection list as long as it is open, the first stream opened for
\* a title the server had not been asked for included, so that a broadcast
\* made while the stream is open is put on its queue unless the queue is full.
C36_OpenStreamIsConnected ==
  \A s \in Streams : StreamOpen(s) => Connected(s)

\* What the server does: a stream opened for a title the server already had a
\* handle for is connected, a connected stream stays connected until it is
\* closed, and a broadcast puts the update on the queue of every connected
\* stream of the title whose queue is not full.
LaterStreamIsConnected ==
  [][/\ \A s \in Streams :
          LET title == server.streams[s].title
          IN  ( /\ Connected(s)
                /\ title \in server.fieldsets
                /\ server'.streams[s].pc \in { "obtained", "open" } ) =>
                InList(Connections(server', title), s)
     /\ \A t \in Titles, u \in Updates :
          Broadcast(t, u) =>
            \A s \in Streams :
              (StreamOpen(s) /\ server.streams[s].title = t /\ Connected(s)) =>
                server'.streams[s].queue = put_nowait(server.streams[s].queue, u)
    ]_vars

\* The first stream opened for a title is open and its queue is in no list.
FirstStreamDisconnected ==
  \E s \in Streams :
    /\ StreamOpen(s)
    /\ ~Connected(s)
    /\ \A r \in 1..(s - 1) : server.streams[r].title # server.streams[s].title

\* A second stream of the same title is open and connected, and a broadcast
\* has reached it.
LaterStreamReceives ==
  \E s \in Streams, r \in Streams :
    /\ r < s
    /\ server.streams[r].title = server.streams[s].title
    /\ StreamOpen(r) /\ ~Connected(r)
    /\ StreamOpen(s) /\ Connected(s)
    /\ server.streams[s].queue # <<>>
    /\ server.streams[r].queue = <<>>

====
